---- MODULE Spec2Model ----
(***************************************************************************)
(* A model of the equation-system solver: plan construction                *)
(* (EquationSystemBuilder::with_triangularization) and the block-by-block  *)
(* orchestrator (EquationSystemBuilder::solve_system).                     *)
(*                                                                         *)
(* Number model.  f64 values are integers plus the sentinels NaN and Inf.  *)
(* Indices are 0-based as in the source; index lists are sequences of      *)
(* 0-based indices, vectors are functions over 0..n-1.                     *)
(***************************************************************************)
EXTENDS Integers, Sequences, FiniteSets, TLC

\* ---- bounds of the model ----
MaxN == 3            \* largest number of equations / unknowns in plan construction
MaxNnz == 6          \* largest number of non-zero Jacobian entries
MaxNonFinite == 1    \* largest number of non-finite Jacobian entries
MaxSolveN == 2       \* largest system the orchestrator is run on
MaxSolveNnz == 4     \* largest number of non-zero Jacobian entries of such a system
MaxOpt == 1          \* opt-space values lie in -MaxOpt..MaxOpt, solver results in 0..MaxOpt
MaxErr == 2          \* number of distinct solver error values
MaxExp == 7          \* exponents of the link functions lie in -MaxExp..MaxExp
MaxScalerN == 2      \* longest prior vector a scaler is called on by itself
MaxSubN == 2         \* largest system a sub-problem by itself is taken from
MaxSaN == 1          \* largest system an annealing run is taken from
MaxSaIters == 2      \* iterations after which an annealing run stops
StallLimit == 1      \* iterations without progress an annealing run tolerates
MaxRunIters == 3     \* iterations after which a run of solve_system's solvers stops
MaxFilterN == 3      \* largest bundle of residual functions that is filtered

\* ---- f64 sentinels ----
NaN == 777777
Inf == 888888

is_finite(x) == x # NaN /\ x # Inf /\ x # -Inf

Min(S) == CHOOSE x \in S : \A y \in S : x <= y
Max(S) == CHOOSE x \in S : \A y \in S : x >= y

\* ascending sequence of the elements of a finite set of integers
RECURSIVE SortedSeq(_)
SortedSeq(S) == IF S = {} THEN << >> ELSE <<Min(S)>> \o SortedSeq(S \ {Min(S)})

Range(s) == {s[k] : k \in DOMAIN s}

\* a matrix is [rows, cols, e], e a function over (0..rows-1) \X (0..cols-1)
EmptyMat == [rows |-> 0, cols |-> 0, e |-> [rc \in {} |-> 0]]

(***************************************************************************)
(* to_binary_matrix: 1 for finite non-zero, NaN for non-finite, 0 else.    *)
(***************************************************************************)
\* mutant: only NaN is kept, an infinite entry counts as a dependency
to_binary_entry_nanOnly(x) == IF x = NaN THEN NaN ELSE IF x # 0 THEN 1 ELSE 0

to_binary_entry(x) == IF ~is_finite(x) THEN NaN ELSE IF x # 0 THEN 1 ELSE 0

to_binary_matrix(mat) ==
    [rows |-> mat.rows, cols |-> mat.cols,
     e |-> [rc \in DOMAIN mat.e |-> to_binary_entry(mat.e[rc])]]

(***************************************************************************)
(* The structural decomposition (lower_block_triangular_structure): a row/ *)
(* column matching, the strongly connected components of the graph with    *)
(* matched pairs contracted, and an order of the components in which every *)
(* component follows the components it depends on.  An entry is a          *)
(* dependency when it is not 0, so a NaN entry is a dependency.            *)
(***************************************************************************)
Present(B, r, c) == B.e[<<r, c>>] # 0

Perms(n) == {p \in [0..n-1 -> 0..n-1] : \A a, b \in 0..n-1 : p[a] = p[b] => a = b}

MatchCount(B, p) == Cardinality({r \in 0..B.rows-1 : Present(B, r, p[r])})

MatchingSize(B) == IF B.rows = 0 THEN 0 ELSE Max({MatchCount(B, p) : p \in Perms(B.rows)})

PerfectMatchings(B) == {p \in Perms(B.rows) : \A r \in 0..B.rows-1 : Present(B, r, p[r])}

LexLeq(p, q, n) ==
    p = q \/ \E k \in 0..n-1 : (\A j \in 0..k-1 : p[j] = q[j]) /\ p[k] < q[k]

\* the perfect matching chosen: ties broken by smallest original index
Matching(B) ==
    LET PM == PerfectMatchings(B)
    IN  CHOOSE p \in PM : \A q \in PM : LexLeq(p, q, B.rows)

\* equation r uses the unknown matched to equation r2
Dep(B, match, r, r2) == r # r2 /\ Present(B, r, match[r2])

RECURSIVE Warshall(_, _, _)
Warshall(k, n, R) ==
    IF k = n THEN R
    ELSE Warshall(k + 1, n,
            R \cup {ab \in (0..n-1) \X (0..n-1) : <<ab[1], k>> \in R /\ <<k, ab[2]>> \in R})

Reach(B, match) ==
    Warshall(0, B.rows,
        {ab \in (0..B.rows-1) \X (0..B.rows-1) : ab[1] = ab[2] \/ Dep(B, match, ab[1], ab[2])})

Components(B, match) ==
    LET R == Reach(B, match)
    IN  {{r2 \in 0..B.rows-1 : <<r, r2>> \in R /\ <<r2, r>> \in R} : r \in 0..B.rows-1}

\* components in dependency order; among the ready ones the smallest index first
RECURSIVE OrderComps(_, _, _, _)
OrderComps(B, match, done, remaining) ==
    IF remaining = {} THEN << >>
    ELSE LET ready == {C \in remaining :
                         \A r \in C : \A r2 \in 0..B.rows-1 :
                            Dep(B, match, r, r2) => r2 \in (done \cup C)}
             nxt == CHOOSE C \in ready : \A D \in ready : Min(C) <= Min(D)
         IN  <<nxt>> \o OrderComps(B, match, done \cup nxt, remaining \ {nxt})

RECURSIVE Flatten(_)
Flatten(ss) == IF ss = << >> THEN << >> ELSE Head(ss) \o Flatten(Tail(ss))

\* LowerBtfStructure: matching_size, block_sizes, row_order, col_order
NoStructure ==
    [matching_size |-> 0, block_sizes |-> << >>, row_order |-> << >>, col_order |-> << >>]

lower_block_triangular_structure(B) ==
    LET match == Matching(B)
        comps == OrderComps(B, match, {}, Components(B, match))
        rows  == [k \in DOMAIN comps |-> SortedSeq(comps[k])]
        cols  == [k \in DOMAIN comps |-> [j \in DOMAIN rows[k] |-> match[rows[k][j]]]]
    IN  [matching_size |-> B.rows,
         block_sizes   |-> [k \in DOMAIN comps |-> Len(rows[k])],
         row_order     |-> Flatten(rows),
         col_order     |-> Flatten(cols)]

RECURSIVE SumSeq(_)
SumSeq(s) == IF s = << >> THEN 0 ELSE Head(s) + SumSeq(Tail(s))

\* LowerBtfStructure::block_indices: the orders cut at the block sizes
block_indices(st) ==
    [k \in DOMAIN st.block_sizes |->
        LET off == SumSeq(SubSeq(st.block_sizes, 1, k - 1))
        IN  <<SubSeq(st.row_order, off + 1, off + st.block_sizes[k]),
              SubSeq(st.col_order, off + 1, off + st.block_sizes[k])>>]

\* pr.permute_rows / pc.permute_columns applied to the binary matrix
lower_tri_mat(B, st) ==
    [rows |-> B.rows, cols |-> B.cols,
     e |-> [rc \in DOMAIN B.e |-> B.e[<<st.row_order[rc[1] + 1], st.col_order[rc[2] + 1]>>]]]

(***************************************************************************)
(* State.                                                                  *)
(***************************************************************************)
VARIABLES
    jac,               \* Jacobian of the raw residuals at the initial guess
    eqsys,             \* the builder: its typestate (Init / Plan) or how the build ended
    initial_unknowns,  \* the caller's unknowns, passed to solve_system by reference
    debug_build,       \* TRUE when debug assertions are compiled in
    pc,                \* position inside solve_system
    i,                 \* index of the block of the for loop
    current_unknowns,  \* solve_system's private copy
    sa_soln,           \* result of simulated annealing awaiting refinement
    result,            \* what solve_system returned
    log,               \* the solver runs so far: solver, block position, outcome
    last_run,          \* the latest solver run in full
    scaler,            \* a ParamScaler and the latest calls of its two closures
    sub,               \* a sub-problem and the latest call of one of its operations
    sa                 \* two runs of solve_simulated_annealing on the same sub-problem

vars == <<jac, eqsys, initial_unknowns, debug_build, pc, i, current_unknowns,
          sa_soln, result, log, last_run, scaler, sub, sa>>

\* no scaler, sub-problem or annealing run is under way
NoScaler == [op |-> "none"]
NoSub == [op |-> "none"]
NoSa == [op |-> "none"]
ProbesIdle == scaler = NoScaler /\ sub = NoSub /\ sa = NoSa

solve_vars == <<initial_unknowns, debug_build, pc, i, current_unknowns,
                sa_soln, result, log, last_run>>

(***************************************************************************)
(* Plan construction.                                                      *)
(***************************************************************************)
\* mutant: every block takes the whole row order as its equations
SolnBlocks_wholeOrder(st) ==
    LET bi == block_indices(st)
    IN  [k \in DOMAIN bi |->
            [block_idx |-> k - 1, equation_idxs |-> st.row_order, unknown_idxs |-> bi[k][2]]]

\* mutant: row and column indices exchanged
SolnBlocks_swapped(st) ==
    LET bi == block_indices(st)
    IN  [k \in DOMAIN bi |->
            [block_idx |-> k - 1, equation_idxs |-> bi[k][2], unknown_idxs |-> bi[k][1]]]

\* mutant: positions in the permuted matrix instead of original indices
SolnBlocks_positions(st) ==
    LET bi == block_indices(st)
    IN  [k \in DOMAIN bi |->
            LET off == SumSeq(SubSeq(st.block_sizes, 1, k - 1))
            IN  [block_idx |-> k - 1,
                 equation_idxs |-> [j \in DOMAIN bi[k][1] |-> off + j - 1],
                 unknown_idxs |-> [j \in DOMAIN bi[k][2] |-> off + j - 1]]]

\* the block list built from the structure's block indices
SolnBlocks(st) ==
    LET bi == block_indices(st)
    IN  [k \in DOMAIN bi |->
            [block_idx |-> k - 1, equation_idxs |-> bi[k][1], unknown_idxs |-> bi[k][2]]]

EqSys(tag, n_eqs, n_unks, B, u, st, blocks) ==
    [tag |-> tag, n_eqs |-> n_eqs, n_unks |-> n_unks, binary_matrix |-> B,
     lower_tri_mat |-> u, block_structure |-> st, solution_plan |-> blocks]

\* EqSysStateInit: the builder before the plan is made
EqSysStateInit(j) == EqSys("Init", j.rows, j.cols, EmptyMat, EmptyMat, NoStructure, << >>)

\* mutant: the error reports the two counts exchanged
with_triangularization_swappedCounts(grad_all) ==
    IF grad_all.rows # grad_all.cols
    THEN EqSys("NumEquationsNumUnknownsMismatch", grad_all.cols, grad_all.rows,
               EmptyMat, EmptyMat, NoStructure, << >>)
    ELSE LET binary_matrix == to_binary_matrix(grad_all)
         IN  IF MatchingSize(binary_matrix) < binary_matrix.rows
             THEN EqSys("Abort", grad_all.rows, grad_all.cols, binary_matrix, EmptyMat,
                        [NoStructure EXCEPT !.matching_size = MatchingSize(binary_matrix)],
                        << >>)
             ELSE LET structure == lower_block_triangular_structure(binary_matrix)
                  IN  EqSys("Plan", grad_all.rows, grad_all.cols, binary_matrix,
                            lower_tri_mat(binary_matrix, structure), structure,
                            SolnBlocks(structure))

\* The only error with_triangularization returns is the mismatch of the two
\* counts.  When the pattern has no perfect matching the decomposition has
\* nothing to return a plan from and the build ends without one ("Abort"):
\* EqSysError has no value for it.
with_triangularization(grad_all) ==
    IF grad_all.rows # grad_all.cols
    THEN EqSys("NumEquationsNumUnknownsMismatch", grad_all.rows, grad_all.cols,
               EmptyMat, EmptyMat, NoStructure, << >>)
    ELSE LET binary_matrix == to_binary_matrix(grad_all)
         IN  IF MatchingSize(binary_matrix) < binary_matrix.rows
             THEN \* no perfect matching: the decomposition fails, no plan is made
                  EqSys("Abort", grad_all.rows, grad_all.cols, binary_matrix, EmptyMat,
                        [NoStructure EXCEPT !.matching_size = MatchingSize(binary_matrix)],
                        << >>)
             ELSE LET structure == lower_block_triangular_structure(binary_matrix)
                  IN  EqSys("Plan", grad_all.rows, grad_all.cols, binary_matrix,
                            lower_tri_mat(binary_matrix, structure), structure,
                            SolnBlocks(structure))

\* the Jacobians the engine can return: entries 0, a finite non-zero value, or NaN
Cells(m, n) == (0..m-1) \X (0..n-1)

Jacobian(m, n, S, T) ==
    [rows |-> m, cols |-> n,
     e |-> [rc \in Cells(m, n) |-> IF rc \in T THEN NaN ELSE IF rc \in S THEN 3 ELSE 0]]

\* the same with the finite non-zero value v and the non-finite value nf
JacobianWith(m, n, S, T, v, nf) ==
    [rows |-> m, cols |-> n,
     e |-> [rc \in Cells(m, n) |-> IF rc \in T THEN nf ELSE IF rc \in S THEN v ELSE 0]]

\* the finite non-zero value and the non-finite value of one Jacobian
EntryValues == {<<3, NaN>>, <<-3, Inf>>, <<-3, -Inf>>}

\* jac is a Jacobian within the bounds
IsJacobian(j, maxn) ==
    \E m \in 1..maxn : \E n \in 1..maxn :
        \E S \in SUBSET Cells(m, n) :
            /\ Cardinality(S) <= MaxNnz
            /\ \E T \in SUBSET S :
                /\ Cardinality(T) <= MaxNonFinite
                /\ \E vs \in EntryValues : j = JacobianWith(m, n, S, T, vs[1], vs[2])

NoRun == [solver |-> "none", block_pos |-> -1, equation_idxs |-> << >>,
          unknown_idxs |-> << >>, start |-> << >>, outcome |-> "none",
          out |-> << >>, err |-> 0]

NoResult == [tag |-> "none", unknowns |-> << >>, err |-> 0]

SolveIdle ==
    /\ pc = "idle" /\ i = 0 /\ current_unknowns = << >> /\ sa_soln = << >>
    /\ result = NoResult /\ log = << >> /\ last_run = NoRun

InitPlan ==
    /\ IsJacobian(jac, MaxN)
    /\ eqsys = EqSysStateInit(jac)
    /\ initial_unknowns = << >>
    /\ debug_build = FALSE
    /\ SolveIdle
    /\ ProbesIdle

WithTriangularization ==
    /\ eqsys.tag = "Init"
    /\ eqsys' = with_triangularization(jac)
    /\ UNCHANGED <<scaler, sub, sa, jac, solve_vars>>

NextPlan == WithTriangularization

SpecPlan == InitPlan /\ [][NextPlan]_vars

(***************************************************************************)
(* Parameter scaling.  exp and ln are taken to base 2 on the integers:     *)
(* exp(x) * d is d doubled x times (halved, rounding, for x < 0), and the  *)
(* lower bound 0.01 * |prior| is |prior| div 100.  The integer grid stands *)
(* for the finite precision of f64: a product exp(x) * d below one grid    *)
(* step adds nothing to the lower bound.                                   *)
(***************************************************************************)
OptVals == -MaxOpt..MaxOpt
SolverVals == 0..MaxOpt
ExpVals == -MaxExp..MaxExp

\* the values an unknown (a prior of the scaler) takes
UnknownVals == {0, 100, -200}

\* f64 comparisons: false when an operand is NaN
fgt(a, b) == a # NaN /\ b # NaN /\ a > b
fge(a, b) == a # NaN /\ b # NaN /\ a >= b
feq(a, b) == a # NaN /\ b # NaN /\ a = b

fabs(x) == IF x = NaN THEN NaN ELSE IF x = Inf \/ x = -Inf THEN Inf ELSE IF x < 0 THEN -x ELSE x

\* f64::signum: 1.0 for +0.0, NaN for NaN
signum(x) == IF x = NaN THEN NaN ELSE IF x < 0 THEN -1 ELSE 1

fsub(a, b) ==
    IF a = NaN \/ b = NaN THEN NaN
    ELSE IF ~is_finite(a) THEN (IF a = b THEN NaN ELSE a)
    ELSE IF ~is_finite(b) THEN -b
    ELSE a - b

fadd(a, b) == fsub(a, IF b = NaN THEN NaN ELSE -b)

fmul(a, b) ==
    IF a = NaN \/ b = NaN THEN NaN
    ELSE IF ~is_finite(a) \/ ~is_finite(b)
         THEN (IF a = 0 \/ b = 0 THEN NaN ELSE IF (a < 0) = (b < 0) THEN Inf ELSE -Inf)
    ELSE a * b

RECURSIVE Pow2(_)
Pow2(k) == IF k <= 0 THEN 1 ELSE 2 * Pow2(k - 1)

\* exp(x) * d for finite x and d
Scale(x, d) == IF x >= 0 THEN Pow2(x) * d ELSE d \div Pow2(-x)

\* |exp(x) * den - num|
LnDist(x, num, den) == IF Scale(x, den) >= num THEN Scale(x, den) - num ELSE num - Scale(x, den)

\* x is a better logarithm of num / den than y: nearer, then smaller in size, then positive
LnCloser(x, y, num, den) ==
    \/ LnDist(x, num, den) < LnDist(y, num, den)
    \/ /\ LnDist(x, num, den) = LnDist(y, num, den)
       /\ (fabs(x) < fabs(y) \/ (fabs(x) = fabs(y) /\ x > y))

RECURSIVE LnScan(_, _, _, _)
LnScan(x, best, num, den) ==
    IF x > MaxExp THEN best
    ELSE IF LnCloser(x, best, num, den) THEN LnScan(x + 1, x, num, den)
    ELSE LnScan(x + 1, best, num, den)

\* ln(num / den) for finite num, den > 0: the x with exp(x) * den nearest to num
LnRatio(num, den) == LnScan(1 - MaxExp, -MaxExp, num, den)

lower_bound(prior) == IF prior = NaN THEN NaN ELSE IF ~is_finite(prior) THEN Inf ELSE fabs(prior) \div 100

scaled_log_link(p, prior, lb) ==
    LET num == fsub(p, lb)
        den == fsub(prior, lb)
    IN  IF num = NaN \/ den = NaN THEN NaN
        ELSE IF ~is_finite(num) \/ ~is_finite(den)
             THEN (IF ~is_finite(num) /\ ~is_finite(den) THEN NaN
                   ELSE IF ~is_finite(num) THEN (IF (num < 0) = (den < 0) THEN Inf ELSE NaN)
                   ELSE -Inf)
        ELSE IF den = 0 THEN (IF num > 0 THEN Inf ELSE NaN)
        ELSE IF num = 0 THEN -Inf
        ELSE IF (num < 0) # (den < 0) THEN NaN
        ELSE LnRatio(fabs(num), fabs(den))

scaled_log_link_inv(x, prior, lb) ==
    LET d == fsub(prior, lb)
    IN  IF x = NaN \/ d = NaN THEN NaN
        ELSE IF x = -Inf THEN (IF is_finite(d) THEN lb ELSE NaN)
        ELSE IF x = Inf THEN fadd(fmul(Inf, d), lb)
        ELSE IF ~is_finite(d) THEN fadd(d, lb)
        ELSE fadd(Scale(x, d), lb)

\* mutant: the prior is passed with its sign
model_to_opt_signedPrior(p_model, priors) ==
    [c \in DOMAIN priors |->
        scaled_log_link(fabs(p_model[c]), priors[c], lower_bound(priors[c]))]

\* default_link_fns_builder: the two closures over the priors
model_to_opt(p_model, priors) ==
    [c \in DOMAIN priors |->
        scaled_log_link(fabs(p_model[c]), fabs(priors[c]), lower_bound(priors[c]))]

opt_to_model(p_opt, priors) ==
    [c \in DOMAIN priors |->
        fmul(scaled_log_link_inv(p_opt[c], fabs(priors[c]), lower_bound(priors[c])),
             signum(priors[c]))]

\* the debug assertions of the link functions, for model values equal to the priors
LinkAssertionsHold(priors) ==
    \A c \in DOMAIN priors :
        /\ priors[c] # NaN
        /\ lower_bound(priors[c]) >= 0
        /\ is_finite(priors[c])
        /\ fabs(priors[c]) > lower_bound(priors[c])

\* the debug assertions of the link functions and of the two closures
scaled_log_link_asserts(p, prior, lb) == fge(lb, 0) /\ fgt(p, lb) /\ fgt(prior, lb)

scaled_log_link_inv_asserts(prior, lb) == fge(lb, 0) /\ fgt(prior, lb)

model_to_opt_asserts(p_model, priors) ==
    \A c \in DOMAIN priors :
        /\ feq(signum(p_model[c]), signum(priors[c]))
        /\ scaled_log_link_asserts(fabs(p_model[c]), fabs(priors[c]), lower_bound(priors[c]))

opt_to_model_asserts(priors) ==
    \A c \in DOMAIN priors :
        scaled_log_link_inv_asserts(fabs(priors[c]), lower_bound(priors[c]))

\* how a call ends: a value, an error value, or a panic
CallOk(v) == [tag |-> "Ok", val |-> v, msg |-> "none"]
CallErr(m) == [tag |-> "Err", val |-> << >>, msg |-> m]
CallPanic == [tag |-> "Panic", val |-> << >>, msg |-> "none"]
NoCall == [tag |-> "none", val |-> << >>, msg |-> "none"]

\* ParamScaler::opt_to_model / model_to_opt in a debug or a release build
call_opt_to_model(p_opt, priors, debug) ==
    IF debug /\ ~opt_to_model_asserts(priors) THEN CallPanic
    ELSE CallOk(opt_to_model(p_opt, priors))

call_model_to_opt(p_model, priors, debug) ==
    IF debug /\ ~model_to_opt_asserts(p_model, priors) THEN CallPanic
    ELSE CallOk(model_to_opt(p_model, priors))

(***************************************************************************)
(* A scaler by itself: built from priors, then opt_to_model on some        *)
(* opt-space vector and model_to_opt on its result, or model_to_opt on the *)
(* priors.                                                                 *)
(***************************************************************************)
OtherIdle ==
    /\ jac = EmptyMat /\ eqsys = EqSysStateInit(EmptyMat)
    /\ initial_unknowns = << >> /\ SolveIdle

InitScaler ==
    /\ OtherIdle /\ sub = NoSub /\ sa = NoSa
    /\ debug_build \in BOOLEAN
    /\ \E n \in 1..MaxScalerN : \E priors \in [0..n-1 -> UnknownVals] :
          scaler = [op |-> "new", priors |-> priors, x |-> << >>,
                    model |-> NoCall, back |-> NoCall]

ScalerOptToModel ==
    /\ scaler.op = "new"
    /\ \E x \in [DOMAIN scaler.priors -> ExpVals] :
          scaler' = [scaler EXCEPT !.op = "opt_to_model", !.x = x,
                        !.model = call_opt_to_model(x, scaler.priors, debug_build)]
    /\ UNCHANGED <<sub, sa, jac, eqsys, solve_vars>>

ScalerRoundTrip ==
    /\ scaler.op = "opt_to_model" /\ scaler.model.tag = "Ok"
    /\ scaler' = [scaler EXCEPT !.op = "round_trip",
                      !.back = call_model_to_opt(scaler.model.val, scaler.priors, debug_build)]
    /\ UNCHANGED <<sub, sa, jac, eqsys, solve_vars>>

ScalerPriorToOpt ==
    /\ scaler.op = "new"
    /\ scaler' = [scaler EXCEPT !.op = "prior_to_opt",
                      !.back = call_model_to_opt(scaler.priors, scaler.priors, debug_build)]
    /\ UNCHANGED <<sub, sa, jac, eqsys, solve_vars>>

NextScaler == ScalerOptToModel \/ ScalerRoundTrip \/ ScalerPriorToOpt

SpecScaler == InitScaler /\ [][NextScaler]_vars

(***************************************************************************)
(* Sub-problem: a block, the unknowns it starts from, and the scaler whose *)
(* priors are those unknowns (use_scaling is true in every orchestrator    *)
(* call).                                                                  *)
(***************************************************************************)
SubProblem(block, unknowns) ==
    [block |-> block, initial_unknowns |-> unknowns, use_scaling |-> TRUE]

\* the scaler's closure when the sub-problem has a scaler, the identity otherwise
modspace_to_optspace(sp, model_params) ==
    IF sp.use_scaling THEN model_to_opt(model_params, sp.initial_unknowns) ELSE model_params

optspace_to_modspace(sp, opt_params) ==
    IF sp.use_scaling THEN opt_to_model(opt_params, sp.initial_unknowns) ELSE opt_params

fullprob_initial_params_optspace(sp) == modspace_to_optspace(sp, sp.initial_unknowns)

subprob_initial_params_optspace(sp) ==
    [j \in DOMAIN sp.block.unknown_idxs |->
        fullprob_initial_params_optspace(sp)[sp.block.unknown_idxs[j]]]

\* the loop full_params[idx] = opt_space_inputs[i], from position j on
RECURSIVE Overwrite(_, _, _, _)
Overwrite(full, idxs, inputs, j) ==
    IF j > Len(idxs) THEN full
    ELSE Overwrite([full EXCEPT ![idxs[j]] = inputs[j]], idxs, inputs, j + 1)

\* mutant: the block's values are written over the model-space initial vector
optspace_fullprob_input_from_subprob_input_overModel(sp, opt_space_inputs) ==
    Overwrite(sp.initial_unknowns, sp.block.unknown_idxs, opt_space_inputs, 1)

optspace_fullprob_input_from_subprob_input(sp, opt_space_inputs) ==
    Overwrite(fullprob_initial_params_optspace(sp), sp.block.unknown_idxs, opt_space_inputs, 1)

\* what a solver returns for the best opt-space parameters it found
params_with_subprob_optimizer_result(sp, p_opt) ==
    optspace_to_modspace(sp, optspace_fullprob_input_from_subprob_input(sp, p_opt))

Outcome(o, out, err) == [outcome |-> o, out |-> out, err |-> err]

\* the ways a solver run on a block from given unknowns can end: the solver
\* library decides between an error and some best parameters
SolverOutcomes(block, unknowns, debug) ==
    LET sp == SubProblem(block, unknowns)
    IN  IF debug /\ ~LinkAssertionsHold(unknowns)
        THEN {Outcome("Panic", << >>, 0)}
        ELSE {Outcome("Err", << >>, e) : e \in 1..MaxErr}
             \cup {Outcome("Ok", params_with_subprob_optimizer_result(sp, best), 0) :
                     best \in [DOMAIN block.unknown_idxs -> SolverVals]}

solve_gauss_newton(block, unknowns, debug) == SolverOutcomes(block, unknowns, debug)
solve_simulated_annealing(block, unknowns, debug) == SolverOutcomes(block, unknowns, debug)
solve_lbfgs(block, unknowns, debug) == SolverOutcomes(block, unknowns, debug)

new_fullprob(size) ==
    [block_idx |-> 0, equation_idxs |-> [k \in 1..size |-> k - 1],
     unknown_idxs |-> [k \in 1..size |-> k - 1]]

(***************************************************************************)
(* A sub-problem by itself: SubProblem::new on a bundle of residual        *)
(* functions and a block, then one of its operations on a vector whose     *)
(* length may or may not be the block's.  Vectors of the block are         *)
(* sequences, full vectors are functions over 0..n-1.  Residual idx reads  *)
(* the unknowns in `uses`: F_idx(x) = (sum of x[j], j in uses) + idx + 1.  *)
(***************************************************************************)
ResFn(idx, uses) == [idx |-> idx, uses |-> uses]

RECURSIVE SumAt(_, _)
SumAt(x, js) == IF js = << >> THEN 0 ELSE fadd(x[Head(js)], SumAt(x, Tail(js)))

eval_res_fn(f, x) == fadd(SumAt(x, SortedSeq(f.uses)), f.idx + 1)

\* ResidualFns: the functions in both numeric flavours, and their names
ResidualFns(n, S) ==
    LET fns == [k \in 1..n |-> ResFn(k - 1, {j \in 0..n-1 : <<k - 1, j>> \in S})]
    IN  [f64 |-> fns, adfn_1 |-> fns, fn_names |-> [k \in 1..n |-> k - 1]]

\* the functions whose index the block's equation_idxs contain, in bundle order
filter_fns(fns, solution_block) ==
    LET keep == SortedSeq({k \in DOMAIN fns : (k - 1) \in Range(solution_block.equation_idxs)})
    IN  [j \in DOMAIN keep |-> fns[keep[j]]]

filter_res_fns_to_block(res_fns, solution_block) ==
    [f64 |-> filter_fns(res_fns.f64, solution_block),
     adfn_1 |-> filter_fns(res_fns.adfn_1, solution_block),
     fn_names |-> [j \in DOMAIN solution_block.equation_idxs |->
                      res_fns.fn_names[solution_block.equation_idxs[j] + 1]]]

\* ParamScaler::new_link_fns_from_priors: the closures capture the priors as they are
new_link_fns_from_priors(priors) == [priors |-> priors]

\* SubProblem::new; Option values are sequences of length 0 or 1
SubProblem_new(res_fns, solution_block, unknowns, residual_scaling, residual_agg, use_scaling) ==
    [fns |-> filter_res_fns_to_block(res_fns, solution_block),
     block |-> solution_block,
     initial_unknowns |-> unknowns,
     use_scaling |-> use_scaling,
     param_scaler |-> IF use_scaling THEN <<new_link_fns_from_priors(unknowns)>> ELSE << >>,
     residual_transform |-> residual_scaling,
     residual_agg |-> residual_agg,
     rng |-> 0,
     sa_cfg |-> << >>]

\* SimulatedAnnealingConfig::default, on the grid of the opt-space values
InitTemp == 100
MaxAbsStep == 2
SmallStep == 1
SimulatedAnnealingConfig == [init_temp |-> InitTemp, max_abs_step |-> MaxAbsStep]

with_simulated_annealing_config(sp, sa_config) == [sp EXCEPT !.sa_cfg = <<sa_config>>]

\* the residual transforms and aggregators
transform_fn(kind, r) == IF kind = "UnscaledL2" THEN fmul(r, r) ELSE r

RECURSIVE sum_loss(_)
sum_loss(rs) == IF rs = << >> THEN 0 ELSE fadd(sum_loss(SubSeq(rs, 1, Len(rs) - 1)), rs[Len(rs)])

aggregate(agg, rs) == IF agg.kind = "Sum" THEN <<sum_loss(rs)>> ELSE rs

num_outputs(agg) == IF agg.kind = "Sum" THEN 1 ELSE agg.n

\* mutant: one transform too few is made, and zip drops the last residual
objective_call_shortZip(sp, inputs) ==
    LET p_model == optspace_to_modspace(sp, inputs)
        residuals == [k \in DOMAIN sp.fns.f64 |-> eval_res_fn(sp.fns.f64[k], p_model)]
        n_zip == Min({Len(residuals), sp.residual_transform.n - 1})
        scaled_residuals ==
            [k \in 1..n_zip |-> transform_fn(sp.residual_transform.kind, residuals[k])]
    IN  aggregate(sp.residual_agg, scaled_residuals)

\* ObjectiveFunction::call on a full opt-space vector: zip stops at the shorter list
objective_call(sp, inputs) ==
    LET p_model == optspace_to_modspace(sp, inputs)
        residuals == [k \in DOMAIN sp.fns.f64 |-> eval_res_fn(sp.fns.f64[k], p_model)]
        n_zip == Min({Len(residuals), sp.residual_transform.n})
        scaled_residuals ==
            [k \in 1..n_zip |-> transform_fn(sp.residual_transform.kind, residuals[k])]
    IN  aggregate(sp.residual_agg, scaled_residuals)

\* the derivative of the objective by forward differentiation
dmodel_dopt(sp, inputs, j) ==
    IF sp.use_scaling
    THEN LET prior == sp.initial_unknowns[j]
             lb == lower_bound(prior)
         IN  fmul(fsub(scaled_log_link_inv(inputs[j], fabs(prior), lb), lb), signum(prior))
    ELSE 1

objective_derivative(sp, inputs) ==
    LET p_model == optspace_to_modspace(sp, inputs)
        n_in == Cardinality(DOMAIN inputs)
        n_zip == Min({Len(sp.fns.adfn_1), sp.residual_transform.n})
        r(k) == eval_res_fn(sp.fns.adfn_1[k], p_model)
        dr(k, j) == IF j \in sp.fns.adfn_1[k].uses THEN dmodel_dopt(sp, inputs, j) ELSE 0
        dt(k, j) == IF sp.residual_transform.kind = "UnscaledL2"
                    THEN fadd(fmul(r(k), dr(k, j)), fmul(dr(k, j), r(k)))
                    ELSE dr(k, j)
    IN  IF sp.residual_agg.kind = "Sum"
        THEN [rows |-> 1, cols |-> n_in,
              e |-> [rc \in Cells(1, n_in) |-> sum_loss([k \in 1..n_zip |-> dt(k, rc[2])])]]
        ELSE [rows |-> n_zip, cols |-> n_in,
              e |-> [rc \in Cells(n_zip, n_in) |-> dt(rc[1] + 1, rc[2])]]

\* mutant: the first columns are taken, whatever the block's unknown_idxs
select_subprob_jacobian_firstColumns(sp, full_jacobian) ==
    [rows |-> full_jacobian.rows, cols |-> Len(sp.block.unknown_idxs),
     e |-> [rc \in Cells(full_jacobian.rows, Len(sp.block.unknown_idxs)) |->
              full_jacobian.e[<<rc[1], rc[2]>>]]]

select_subprob_jacobian(sp, full_jacobian) ==
    [rows |-> full_jacobian.rows, cols |-> Len(sp.block.unknown_idxs),
     e |-> [rc \in Cells(full_jacobian.rows, Len(sp.block.unknown_idxs)) |->
              full_jacobian.e[<<rc[1], sp.block.unknown_idxs[rc[2] + 1]>>]]]

\* the link functions' debug assertions, as reached from the sub-problem
to_opt_panics(sp, debug) ==
    debug /\ sp.use_scaling /\ ~model_to_opt_asserts(sp.initial_unknowns, sp.initial_unknowns)

to_model_panics(sp, debug) ==
    debug /\ sp.use_scaling /\ ~opt_to_model_asserts(sp.initial_unknowns)

\* optspace_fullprob_input_from_subprob_input as a call: the length is only
\* asserted in debug builds; in a release build a short vector is indexed
\* past its end and a long one is read up to the block's length
call_expand(sp, opt_space_inputs, debug) ==
    IF debug /\ Len(opt_space_inputs) # Len(sp.block.unknown_idxs) THEN CallPanic
    ELSE IF to_opt_panics(sp, debug) THEN CallPanic
    ELSE IF Len(opt_space_inputs) < Len(sp.block.unknown_idxs) THEN CallPanic
    ELSE CallOk(optspace_fullprob_input_from_subprob_input(sp, opt_space_inputs))

\* mutant: the objective is evaluated at the initial full vector
apply_notExpanded(sp, p, debug) ==
    IF Len(p) # Len(sp.block.unknown_idxs) THEN CallErr("apply: length")
    ELSE LET p_opt == call_expand(sp, p, debug)
         IN  IF p_opt.tag # "Ok" THEN p_opt
             ELSE IF to_model_panics(sp, debug) THEN CallPanic
             ELSE CallOk(objective_call(sp, fullprob_initial_params_optspace(sp)))

\* Operator::apply
apply(sp, p, debug) ==
    IF Len(p) # Len(sp.block.unknown_idxs) THEN CallErr("apply: length")
    ELSE LET p_opt == call_expand(sp, p, debug)
         IN  IF p_opt.tag # "Ok" THEN p_opt
             ELSE IF to_model_panics(sp, debug) THEN CallPanic
             ELSE CallOk(objective_call(sp, p_opt.val))

\* Gradient::gradient (scalar aggregators)
gradient(sp, p, debug) ==
    IF Len(p) # Len(sp.block.unknown_idxs) THEN CallErr("gradient: length")
    ELSE LET p_full == call_expand(sp, p, debug)
         IN  IF p_full.tag # "Ok" THEN p_full
             ELSE IF to_model_panics(sp, debug) THEN CallPanic
             ELSE LET gradient_matrix ==
                          select_subprob_jacobian(sp, objective_derivative(sp, p_full.val))
                  IN  IF gradient_matrix.rows # 1 THEN CallErr("gradient: rows")
                      ELSE CallOk([j \in 1..gradient_matrix.cols |->
                                      gradient_matrix.e[<<0, j - 1>>]])

\* Jacobian::jacobian (the no-op aggregator)
jacobian(sp, p, debug) ==
    IF Len(p) # Len(sp.block.unknown_idxs) THEN CallErr("jacobian: length")
    ELSE LET p_full == call_expand(sp, p, debug)
         IN  IF p_full.tag # "Ok" THEN p_full
             ELSE IF to_model_panics(sp, debug) THEN CallPanic
             ELSE CallOk(select_subprob_jacobian(sp, objective_derivative(sp, p_full.val)))

\* the three draws of one proposal, each low (0), middle (1) or high (2):
\* the coordinate, big move or small move, and the size of the move
RawVals == 0..2
Draws == [coord : RawVals, big : RawVals, size : RawVals]
TempVals == {0, InitTemp}

\* mutant: the move is not clamped
anneal_proposal_noClamp(sp, p, temp, d) ==
    LET sa_cfg == sp.sa_cfg[1]
        hot == sa_cfg.init_temp > 0 /\ 2 * temp >= sa_cfg.init_temp
        idx == (d.coord % Len(p)) + 1
        is_big == d.big = 0 \/ (d.big = 1 /\ hot)
        raw == IF is_big THEN (d.size - 1) * 2 * sa_cfg.max_abs_step
               ELSE (d.size - 1) * SmallStep
    IN  [p EXCEPT ![idx] = fadd(p[idx], raw)]

\* the proposal from p at temperature temp with the three draws d
anneal_proposal(sp, p, temp, d) ==
    LET sa_cfg == sp.sa_cfg[1]
        hot == sa_cfg.init_temp > 0 /\ 2 * temp >= sa_cfg.init_temp
        idx == (d.coord % Len(p)) + 1
        is_big == d.big = 0 \/ (d.big = 1 /\ hot)
        raw == IF is_big THEN (d.size - 1) * 2 * sa_cfg.max_abs_step
               ELSE (d.size - 1) * SmallStep
        delta == Max({-sa_cfg.max_abs_step, Min({sa_cfg.max_abs_step, raw})})
    IN  [p EXCEPT ![idx] = fadd(p[idx], delta)]

\* mutant: the draws are taken from a copy of the generator, which stays where it was
anneal_copiedGenerator(sp, p, temp, d) ==
    IF Len(p) # Len(sp.block.unknown_idxs)
    THEN [res |-> CallErr("anneal: length"), rng |-> sp.rng]
    ELSE IF sp.sa_cfg = << >> THEN [res |-> CallPanic, rng |-> sp.rng]
    ELSE [res |-> CallOk(anneal_proposal(sp, p, temp, d)), rng |-> sp.rng]

\* Anneal::anneal: the result and the position of the generator afterwards
anneal(sp, p, temp, d) ==
    IF Len(p) # Len(sp.block.unknown_idxs)
    THEN [res |-> CallErr("anneal: length"), rng |-> sp.rng]
    ELSE IF sp.sa_cfg = << >> THEN [res |-> CallPanic, rng |-> sp.rng]
    ELSE [res |-> CallOk(anneal_proposal(sp, p, temp, d)), rng |-> sp.rng + 1]

\* the systems a sub-problem is taken from: decoupled, exchanged, triangular, dense
Diagonal(n) == {rc \in Cells(n, n) : rc[1] = rc[2]}
AntiDiagonal(n) == {rc \in Cells(n, n) : rc[1] + rc[2] = n - 1}
LowerTri(n) == {rc \in Cells(n, n) : rc[2] <= rc[1]}
SubPatterns(n) == {Diagonal(n), AntiDiagonal(n), LowerTri(n), Cells(n, n)}

\* the blocks of the plan of a system, and the block of the full problem
SubBlocks(n, S) ==
    Range(with_triangularization(Jacobian(n, n, S, {})).solution_plan) \cup {new_fullprob(n)}

Transforms(n) == {[kind |-> "Identity", n |-> n], [kind |-> "UnscaledL2", n |-> n]}
Aggregators(block) == {[kind |-> "Sum", n |-> 1],
                       [kind |-> "NoOp", n |-> Len(block.equation_idxs)]}

\* vectors handed to an operation of a block of k unknowns: length k-1, k or k+1
SubInputs(k) == UNION {[1..len -> SolverVals] : len \in {k - 1, k, k + 1}}

NoSubProblem == [block |-> new_fullprob(0)]

InitSub ==
    /\ OtherIdle /\ scaler = NoScaler /\ sa = NoSa
    /\ debug_build \in BOOLEAN
    /\ \E n \in 1..MaxSubN : \E S \in SubPatterns(n) : \E block \in SubBlocks(n, S) :
       \E unknowns \in [0..n-1 -> UnknownVals] :
       \E residual_scaling \in Transforms(n) : \E residual_agg \in Aggregators(block) :
       \E use_scaling \in BOOLEAN :
          sub = [op |-> "args",
                 args |-> [res_fns |-> ResidualFns(n, S), block |-> block,
                           unknowns |-> unknowns, residual_scaling |-> residual_scaling,
                           residual_agg |-> residual_agg, use_scaling |-> use_scaling],
                 made |-> NoCall, sp |-> NoSubProblem,
                 input |-> << >>, temp |-> 0, out |-> NoCall]

\* SubProblem::new returns the sub-problem, whatever the priors
SubNew ==
    /\ sub.op = "args"
    /\ LET a == sub.args
           sp == SubProblem_new(a.res_fns, a.block, a.unknowns, a.residual_scaling,
                                a.residual_agg, a.use_scaling)
       IN  sub' = [sub EXCEPT !.op = "new", !.made = CallOk("SubProblem"), !.sp = sp]
    /\ UNCHANGED <<scaler, sa, jac, eqsys, solve_vars>>

SubWithSaConfig ==
    /\ sub.op = "new"
    /\ sub' = [sub EXCEPT !.op = "sa_cfg",
                  !.sp = with_simulated_annealing_config(sub.sp, SimulatedAnnealingConfig)]
    /\ UNCHANGED <<scaler, sa, jac, eqsys, solve_vars>>

SubApply ==
    /\ sub.op = "new"
    /\ \E p \in SubInputs(Len(sub.sp.block.unknown_idxs)) :
          sub' = [sub EXCEPT !.op = "apply", !.input = p,
                     !.out = apply(sub.sp, p, debug_build)]
    /\ UNCHANGED <<scaler, sa, jac, eqsys, solve_vars>>

SubGradient ==
    /\ sub.op = "new" /\ sub.sp.residual_agg.kind = "Sum"
    /\ \E p \in SubInputs(Len(sub.sp.block.unknown_idxs)) :
          sub' = [sub EXCEPT !.op = "gradient", !.input = p,
                     !.out = gradient(sub.sp, p, debug_build)]
    /\ UNCHANGED <<scaler, sa, jac, eqsys, solve_vars>>

SubJacobian ==
    /\ sub.op = "new" /\ sub.sp.residual_agg.kind = "NoOp"
    /\ \E p \in SubInputs(Len(sub.sp.block.unknown_idxs)) :
          sub' = [sub EXCEPT !.op = "jacobian", !.input = p,
                     !.out = jacobian(sub.sp, p, debug_build)]
    /\ UNCHANGED <<scaler, sa, jac, eqsys, solve_vars>>

SubAnneal ==
    /\ sub.op \in {"new", "sa_cfg"}
    /\ \E p \in SubInputs(Len(sub.sp.block.unknown_idxs)) :
       \E temp \in TempVals : \E d \in Draws :
          LET a == anneal(sub.sp, p, temp, d)
          IN  sub' = [sub EXCEPT !.op = "anneal", !.input = p, !.temp = temp,
                         !.out = a.res, !.sp = [sub.sp EXCEPT !.rng = a.rng]]
    /\ UNCHANGED <<scaler, sa, jac, eqsys, solve_vars>>

SubExpand ==
    /\ sub.op = "new"
    /\ \E p \in SubInputs(Len(sub.sp.block.unknown_idxs)) :
          sub' = [sub EXCEPT !.op = "expand", !.input = p,
                     !.out = call_expand(sub.sp, p, debug_build)]
    /\ UNCHANGED <<scaler, sa, jac, eqsys, solve_vars>>

NextSub ==
    \/ SubNew
    \/ SubWithSaConfig
    \/ SubApply
    \/ SubGradient
    \/ SubJacobian
    \/ SubAnneal
    \/ SubExpand

SpecSub == InitSub /\ [][NextSub]_vars

(***************************************************************************)
(* filter_res_fns_to_block by itself, on a bundle of n residual functions  *)
(* and a block.  The order of a block's equation_idxs is the order the     *)
(* decomposition gave the rows of the block, which is any order.           *)
(***************************************************************************)
\* the sequences of k different indices below n
Arrangements(n, k) ==
    {q \in [1..k -> 0..n-1] : \A a, b \in 1..k : a # b => q[a] # q[b]}

\* SolutionBlock values over a system of n equations
FilterBlocks(n) ==
    UNION {[block_idx : {0}, equation_idxs : Arrangements(n, k),
            unknown_idxs : Arrangements(n, k)] : k \in 1..n}

InitFilter ==
    /\ OtherIdle /\ scaler = NoScaler /\ sa = NoSa
    /\ debug_build = FALSE
    /\ \E n \in 1..MaxFilterN : \E S \in SubPatterns(n) : \E block \in FilterBlocks(n) :
          sub = [op |-> "filter_args", res_fns |-> ResidualFns(n, S), block |-> block,
                 out |-> NoCall]

\* ResidualFns::filter_res_fns_to_block
FilterResFns ==
    /\ sub.op = "filter_args"
    /\ sub' = [sub EXCEPT !.op = "filtered",
                          !.out = CallOk(filter_res_fns_to_block(sub.res_fns, sub.block))]
    /\ UNCHANGED <<scaler, sa, jac, eqsys, solve_vars>>

SpecFilter == InitFilter /\ [][FilterResFns]_vars

(***************************************************************************)
(* solve_simulated_annealing, run twice on the same arguments.  Each run   *)
(* makes its own sub-problem, whose proposal generator is seeded with 0:   *)
(* the n-th proposal of a run takes the n-th draws of that one stream.     *)
(* The solver is made by SimulatedAnnealing::new(temp), whose own          *)
(* generator, used to accept or reject a proposal that is no better, is    *)
(* seeded from the operating system: its draws are free in every run.      *)
(* MaxSaIters stands for max_iters (10000) and StallLimit for the two      *)
(* stall limits (1000).                                                    *)
(***************************************************************************)
NewRun ==
    [status |-> "idle", sp |-> NoSubProblem, param |-> << >>, cost |-> 0,
     best_param |-> << >>, best_cost |-> Inf, iter |-> 0,
     stall_iter_accepted |-> 0, stall_iter_best |-> 0,
     accepts |-> << >>, out |-> NoCall]

\* CostFunction::cost
cost(sp, p, debug) ==
    LET operator_result == apply(sp, p, debug)
    IN  IF operator_result.tag # "Ok" THEN operator_result
        ELSE CallOk(operator_result.val[1])

\* the temperature of iteration iter (the solver's default schedule)
cur_temp(sp, iter) == sp.sa_cfg[1].init_temp \div (iter + 1)

\* the draws a proposal on k coordinates can take from the generator
SaDraws(k) == {d \in Draws : d.coord < k /\ d.size # 1}

\* the executor's state after a parameter vector and its cost were stored
update(run) ==
    IF fgt(run.best_cost, run.cost)
    THEN [run EXCEPT !.best_param = <<run.param>>, !.best_cost = run.cost]
    ELSE run

\* mutant: no max_iters is configured
stopping_noMaxIters(run, max_iters) ==
    \/ fge(0, run.best_cost)
    \/ run.stall_iter_accepted > StallLimit
    \/ run.stall_iter_best > StallLimit

\* the stopping criteria: max_iters, target_cost 0, with_stall_accepted, with_stall_best
stopping(run, max_iters) ==
    \/ run.iter >= max_iters
    \/ fge(0, run.best_cost)
    \/ run.stall_iter_accepted > StallLimit
    \/ run.stall_iter_best > StallLimit

terminated(run) == stopping(run, MaxSaIters)

\* the decisions open to the solver on a proposal: a better one is taken, one
\* that is no better is taken or not by a draw of the solver's generator
accept_choices(prev_cost, new_cost) ==
    IF fgt(prev_cost, new_cost) THEN {TRUE}
    ELSE IF is_finite(prev_cost) /\ is_finite(new_cost) THEN BOOLEAN
    ELSE {FALSE}

\* one iteration of the solver on run: the proposal new_param, its cost
\* new_cost, and the decision accepted
next_iter(run, new_param, new_cost, accepted) ==
    IF new_param.res.tag # "Ok"
    THEN [run EXCEPT !.status = "done", !.out = new_param.res]
    ELSE IF new_cost.tag # "Ok"
         THEN [run EXCEPT !.status = "done", !.out = new_cost]
         ELSE LET new_best_found == fgt(run.best_cost, new_cost.val) IN
              update([run EXCEPT
                  !.sp = [run.sp EXCEPT !.rng = new_param.rng],
                  !.param = IF accepted THEN new_param.res.val ELSE run.param,
                  !.cost = IF accepted THEN new_cost.val ELSE run.cost,
                  !.stall_iter_accepted = IF accepted THEN 0 ELSE @ + 1,
                  !.stall_iter_best = IF new_best_found THEN 0 ELSE @ + 1,
                  !.accepts = Append(@, accepted),
                  !.iter = @ + 1])

InitSa ==
    /\ OtherIdle /\ scaler = NoScaler /\ sub = NoSub
    /\ debug_build \in BOOLEAN
    /\ \E n \in 1..MaxSaN : \E S \in SubPatterns(n) : \E block \in SubBlocks(n, S) :
       \E unknowns \in [0..n-1 -> UnknownVals] :
       \E use_scaling \in BOOLEAN :
          sa = [op |-> "args",
                args |-> [res_fns |-> ResidualFns(n, S), block |-> block,
                          unknowns |-> unknowns,
                          residual_scaling |-> [kind |-> "UnscaledL2", n |-> n],
                          residual_agg |-> [kind |-> "Sum", n |-> 1],
                          use_scaling |-> use_scaling],
                stream |-> << >>, k |-> 1, runs |-> <<NewRun, NewRun>>]

\* a run begins: SubProblem::new, the initial parameters and their cost
SaStart ==
    /\ sa.op \in {"args", "run"}
    /\ sa.runs[sa.k].status = "idle"
    /\ LET a == sa.args
           sp == with_simulated_annealing_config(
                     SubProblem_new(a.res_fns, a.block, a.unknowns, a.residual_scaling,
                                    a.residual_agg, a.use_scaling),
                     SimulatedAnnealingConfig)
           optspace_params == subprob_initial_params_optspace(sp)
           c == IF to_opt_panics(sp, debug_build) THEN CallPanic
                ELSE cost(sp, optspace_params, debug_build)
           run == [NewRun EXCEPT !.sp = sp]
       IN  sa' = [sa EXCEPT !.op = "run", !.runs[sa.k] =
                     IF c.tag # "Ok" THEN [run EXCEPT !.status = "done", !.out = c]
                     ELSE update([run EXCEPT !.status = "running",
                                             !.param = optspace_params, !.cost = c.val])]
    /\ UNCHANGED <<scaler, sub, jac, eqsys, solve_vars>>

\* one iteration: the proposal takes the stream's next draws, which a second
\* run finds as the first run left them
SaIterate ==
    /\ sa.op = "run"
    /\ sa.runs[sa.k].status = "running" /\ ~terminated(sa.runs[sa.k])
    /\ LET run == sa.runs[sa.k]
           pos == run.sp.rng + 1
       IN  \E d \in SaDraws(Len(run.param)) :
              /\ pos <= Len(sa.stream) => d = sa.stream[pos]
              /\ LET new_param == anneal(run.sp, run.param, cur_temp(run.sp, run.iter), d)
                     new_cost == IF new_param.res.tag # "Ok" THEN NoCall
                                 ELSE cost(run.sp, new_param.res.val, debug_build)
                     choices == IF new_cost.tag # "Ok" THEN {FALSE}
                                ELSE accept_choices(run.cost, new_cost.val)
                 IN  \E accepted \in choices :
                        sa' = [sa EXCEPT
                                  !.stream = IF pos <= Len(sa.stream) THEN @ ELSE Append(@, d),
                                  !.runs[sa.k] = next_iter(run, new_param, new_cost, accepted)]
    /\ UNCHANGED <<scaler, sub, jac, eqsys, solve_vars>>

\* the run ends: the best parameters, expanded and mapped to model space
SaFinish ==
    /\ sa.op = "run"
    /\ sa.runs[sa.k].status = "running" /\ terminated(sa.runs[sa.k])
    /\ LET run == sa.runs[sa.k]
           out == IF run.best_param = << >> THEN CallPanic
                  ELSE CallOk(params_with_subprob_optimizer_result(run.sp, run.best_param[1]))
       IN  sa' = [sa EXCEPT !.runs[sa.k] = [run EXCEPT !.status = "done", !.out = out]]
    /\ UNCHANGED <<scaler, sub, jac, eqsys, solve_vars>>

\* the second invocation, on the same arguments
SaAgain ==
    /\ sa.op = "run" /\ sa.k = 1 /\ sa.runs[1].status = "done"
    /\ sa' = [sa EXCEPT !.k = 2]
    /\ UNCHANGED <<scaler, sub, jac, eqsys, solve_vars>>

NextSa ==
    \/ SaStart
    \/ SaIterate
    \/ SaFinish
    \/ SaAgain

SpecAnneal == InitSa /\ [][NextSa]_vars

(***************************************************************************)
(* solve_system.                                                           *)
(***************************************************************************)
Run(solver, pos, block, start, o) ==
    [solver |-> solver, block_pos |-> pos, equation_idxs |-> block.equation_idxs,
     unknown_idxs |-> block.unknown_idxs, start |-> start, outcome |-> o.outcome,
     out |-> o.out, err |-> o.err]

LogEntry(solver, pos, o) == [solver |-> solver, block_pos |-> pos, outcome |-> o.outcome]

Ok(u) == [tag |-> "Ok", unknowns |-> u, err |-> 0]
Err(e) == [tag |-> "Err", unknowns |-> << >>, err |-> e]
Panic == [tag |-> "Panic", unknowns |-> << >>, err |-> 0]

\* what solve_system reads of the builder: the plan and the number of residuals
SolveView(es) ==
    [es EXCEPT !.binary_matrix = EmptyMat, !.lower_tri_mat = EmptyMat,
               !.block_structure = NoStructure]

Init ==
    /\ jac = EmptyMat
    /\ \E n \in 1..MaxSolveN :
        /\ \E S \in SUBSET Cells(n, n) :
            /\ Cardinality(S) <= MaxSolveNnz
            /\ with_triangularization(Jacobian(n, n, S, {})).tag = "Plan"
            /\ eqsys = SolveView(with_triangularization(Jacobian(n, n, S, {})))
        /\ initial_unknowns \in [0..n-1 -> UnknownVals]
    /\ debug_build \in BOOLEAN
    /\ SolveIdle
    /\ ProbesIdle

CallSolveSystem ==
    /\ pc = "idle" /\ eqsys.tag = "Plan"
    /\ current_unknowns' = initial_unknowns
    /\ i' = 0
    /\ pc' = "loop"
    /\ UNCHANGED <<scaler, sub, sa, jac, eqsys, initial_unknowns, debug_build, sa_soln, result, log, last_run>>

\* mutant: no `continue` after a successful Gauss-Newton run
GaussNewtonFirst_fallthrough ==
    /\ pc = "loop" /\ i < Len(eqsys.solution_plan)
    /\ LET block == eqsys.solution_plan[i + 1]
       IN  \E o \in solve_gauss_newton(block, current_unknowns, debug_build) :
            /\ log' = Append(log, LogEntry("GN", i, o))
            /\ last_run' = Run("GN", i, block, current_unknowns, o)
            /\ CASE o.outcome = "Ok" ->
                      /\ current_unknowns' = o.out
                      /\ pc' = "sa"
                      /\ UNCHANGED <<i, result>>
                 [] o.outcome = "Err" ->
                      /\ pc' = "sa"
                      /\ UNCHANGED <<current_unknowns, i, result>>
                 [] OTHER ->
                      /\ pc' = "done" /\ result' = Panic
                      /\ UNCHANGED <<current_unknowns, i>>
    /\ UNCHANGED <<scaler, sub, sa, jac, eqsys, initial_unknowns, debug_build, sa_soln>>

\* mutant: current_unknowns is the caller's value, not a clone of it
GaussNewtonFirst_alias ==
    /\ pc = "loop" /\ i < Len(eqsys.solution_plan)
    /\ LET block == eqsys.solution_plan[i + 1]
       IN  \E o \in solve_gauss_newton(block, current_unknowns, debug_build) :
            /\ log' = Append(log, LogEntry("GN", i, o))
            /\ last_run' = Run("GN", i, block, current_unknowns, o)
            /\ CASE o.outcome = "Ok" ->
                      /\ current_unknowns' = o.out
                      /\ initial_unknowns' = o.out
                      /\ i' = i + 1
                      /\ UNCHANGED <<pc, result>>
                 [] o.outcome = "Err" ->
                      /\ pc' = "sa"
                      /\ UNCHANGED <<current_unknowns, initial_unknowns, i, result>>
                 [] OTHER ->
                      /\ pc' = "done" /\ result' = Panic
                      /\ UNCHANGED <<current_unknowns, initial_unknowns, i>>
    /\ UNCHANGED <<scaler, sub, sa, jac, eqsys, debug_build, sa_soln>>

\* mutant: a failed run leaves its last iterate in current_unknowns
GaussNewtonFirst_carryOver ==
    /\ pc = "loop" /\ i < Len(eqsys.solution_plan)
    /\ LET block == eqsys.solution_plan[i + 1]
       IN  \E o \in solve_gauss_newton(block, current_unknowns, debug_build) :
            /\ log' = Append(log, LogEntry("GN", i, o))
            /\ last_run' = Run("GN", i, block, current_unknowns, o)
            /\ CASE o.outcome = "Ok" ->
                      /\ current_unknowns' = o.out
                      /\ i' = i + 1
                      /\ UNCHANGED <<pc, result>>
                 [] o.outcome = "Err" ->
                      /\ pc' = "sa"
                      /\ current_unknowns' =
                            params_with_subprob_optimizer_result(
                                SubProblem(block, current_unknowns),
                                [j \in DOMAIN block.unknown_idxs |-> MaxOpt])
                      /\ UNCHANGED <<i, result>>
                 [] OTHER ->
                      /\ pc' = "done" /\ result' = Panic
                      /\ UNCHANGED <<current_unknowns, i>>
    /\ UNCHANGED <<scaler, sub, sa, jac, eqsys, initial_unknowns, debug_build, sa_soln>>

\* the first Gauss-Newton run on block i
GaussNewtonFirst ==
    /\ pc = "loop" /\ i < Len(eqsys.solution_plan)
    /\ LET block == eqsys.solution_plan[i + 1]
       IN  \E o \in solve_gauss_newton(block, current_unknowns, debug_build) :
            /\ log' = Append(log, LogEntry("GN", i, o))
            /\ last_run' = Run("GN", i, block, current_unknowns, o)
            /\ CASE o.outcome = "Ok" ->
                      /\ current_unknowns' = o.out
                      /\ i' = i + 1
                      /\ UNCHANGED <<pc, result>>
                 [] o.outcome = "Err" ->
                      /\ pc' = "sa"
                      /\ UNCHANGED <<current_unknowns, i, result>>
                 [] OTHER ->
                      /\ pc' = "done" /\ result' = Panic
                      /\ UNCHANGED <<current_unknowns, i>>
    /\ UNCHANGED <<scaler, sub, sa, jac, eqsys, initial_unknowns, debug_build, sa_soln>>

\* mutant: an annealing error is dropped and the loop goes on
SimulatedAnnealingRun_swallow ==
    /\ pc = "sa"
    /\ LET block == eqsys.solution_plan[i + 1]
       IN  \E o \in solve_simulated_annealing(block, current_unknowns, debug_build) :
            /\ log' = Append(log, LogEntry("SA", i, o))
            /\ last_run' = Run("SA", i, block, current_unknowns, o)
            /\ CASE o.outcome = "Ok" ->
                      /\ sa_soln' = o.out
                      /\ pc' = "refine"
                      /\ UNCHANGED <<result, i>>
                 [] o.outcome = "Err" ->
                      /\ pc' = "loop" /\ i' = i + 1
                      /\ UNCHANGED <<sa_soln, result>>
                 [] OTHER ->
                      /\ pc' = "done" /\ result' = Panic
                      /\ UNCHANGED <<sa_soln, i>>
    /\ UNCHANGED <<scaler, sub, sa, jac, eqsys, initial_unknowns, debug_build, current_unknowns>>

\* mutant: annealing starts from the caller's unknowns
SimulatedAnnealingRun_fromInitial ==
    /\ pc = "sa"
    /\ LET block == eqsys.solution_plan[i + 1]
       IN  \E o \in solve_simulated_annealing(block, initial_unknowns, debug_build) :
            /\ log' = Append(log, LogEntry("SA", i, o))
            /\ last_run' = Run("SA", i, block, initial_unknowns, o)
            /\ CASE o.outcome = "Ok" ->
                      /\ sa_soln' = o.out
                      /\ pc' = "refine"
                      /\ UNCHANGED result
                 [] o.outcome = "Err" ->
                      /\ pc' = "done" /\ result' = Err(o.err)
                      /\ UNCHANGED sa_soln
                 [] OTHER ->
                      /\ pc' = "done" /\ result' = Panic
                      /\ UNCHANGED sa_soln
    /\ UNCHANGED <<scaler, sub, sa, jac, eqsys, initial_unknowns, debug_build, current_unknowns, i>>

SimulatedAnnealingRun ==
    /\ pc = "sa"
    /\ LET block == eqsys.solution_plan[i + 1]
       IN  \E o \in solve_simulated_annealing(block, current_unknowns, debug_build) :
            /\ log' = Append(log, LogEntry("SA", i, o))
            /\ last_run' = Run("SA", i, block, current_unknowns, o)
            /\ CASE o.outcome = "Ok" ->
                      /\ sa_soln' = o.out
                      /\ pc' = "refine"
                      /\ UNCHANGED result
                 [] o.outcome = "Err" ->
                      /\ pc' = "done" /\ result' = Err(o.err)
                      /\ UNCHANGED sa_soln
                 [] OTHER ->
                      /\ pc' = "done" /\ result' = Panic
                      /\ UNCHANGED sa_soln
    /\ UNCHANGED <<scaler, sub, sa, jac, eqsys, initial_unknowns, debug_build, current_unknowns, i>>

\* mutant: the raw annealing result is kept as the block's solution
GaussNewtonRefine_keepSa ==
    /\ pc = "refine"
    /\ LET block == eqsys.solution_plan[i + 1]
       IN  \E o \in solve_gauss_newton(block, sa_soln, debug_build) :
            /\ log' = Append(log, LogEntry("GNrefine", i, o))
            /\ last_run' = Run("GNrefine", i, block, sa_soln, o)
            /\ IF o.outcome # "Panic"
               THEN /\ current_unknowns' = sa_soln
                    /\ i' = i + 1
                    /\ pc' = "loop"
                    /\ sa_soln' = << >>
                    /\ UNCHANGED result
               ELSE /\ pc' = "done" /\ result' = Panic
                    /\ UNCHANGED <<current_unknowns, i, sa_soln>>
    /\ UNCHANGED <<scaler, sub, sa, jac, eqsys, initial_unknowns, debug_build>>

\* Gauss-Newton again, from the annealing result; its failure is a panic
GaussNewtonRefine ==
    /\ pc = "refine"
    /\ LET block == eqsys.solution_plan[i + 1]
       IN  \E o \in solve_gauss_newton(block, sa_soln, debug_build) :
            /\ log' = Append(log, LogEntry("GNrefine", i, o))
            /\ last_run' = Run("GNrefine", i, block, sa_soln, o)
            /\ IF o.outcome = "Ok"
               THEN /\ current_unknowns' = o.out
                    /\ i' = i + 1
                    /\ pc' = "loop"
                    /\ sa_soln' = << >>
                    /\ UNCHANGED result
               ELSE /\ pc' = "done" /\ result' = Panic
                    /\ UNCHANGED <<current_unknowns, i, sa_soln>>
    /\ UNCHANGED <<scaler, sub, sa, jac, eqsys, initial_unknowns, debug_build>>

\* mutant: the polish starts from the caller's unknowns
FinalPolish_fromInitial ==
    /\ pc = "loop" /\ i = Len(eqsys.solution_plan)
    /\ LET full_prob_block == new_fullprob(eqsys.n_eqs)
       IN  \E o \in solve_lbfgs(full_prob_block, initial_unknowns, debug_build) :
            /\ log' = Append(log, LogEntry("LBFGS", -1, o))
            /\ last_run' = Run("LBFGS", -1, full_prob_block, initial_unknowns, o)
            /\ pc' = "done"
            /\ CASE o.outcome = "Ok" ->
                      /\ current_unknowns' = o.out
                      /\ result' = Ok(o.out)
                 [] o.outcome = "Err" ->
                      /\ result' = Err(o.err)
                      /\ UNCHANGED current_unknowns
                 [] OTHER ->
                      /\ result' = Panic
                      /\ UNCHANGED current_unknowns
    /\ UNCHANGED <<scaler, sub, sa, jac, eqsys, initial_unknowns, debug_build, i, sa_soln>>

\* after the loop: L-BFGS over the full problem
FinalPolish ==
    /\ pc = "loop" /\ i = Len(eqsys.solution_plan)
    /\ LET full_prob_block == new_fullprob(eqsys.n_eqs)
       IN  \E o \in solve_lbfgs(full_prob_block, current_unknowns, debug_build) :
            /\ log' = Append(log, LogEntry("LBFGS", -1, o))
            /\ last_run' = Run("LBFGS", -1, full_prob_block, current_unknowns, o)
            /\ pc' = "done"
            /\ CASE o.outcome = "Ok" ->
                      /\ current_unknowns' = o.out
                      /\ result' = Ok(o.out)
                 [] o.outcome = "Err" ->
                      /\ result' = Err(o.err)
                      /\ UNCHANGED current_unknowns
                 [] OTHER ->
                      /\ result' = Panic
                      /\ UNCHANGED current_unknowns
    /\ UNCHANGED <<scaler, sub, sa, jac, eqsys, initial_unknowns, debug_build, i, sa_soln>>

Next ==
    \/ CallSolveSystem
    \/ GaussNewtonFirst
    \/ SimulatedAnnealingRun
    \/ GaussNewtonRefine
    \/ FinalPolish

Spec == Init /\ [][Next]_vars

(***************************************************************************)
(* solve_system with the iterations of its solver runs.  Every run is an   *)
(* executor loop: the executor stores the initial parameters, then         *)
(* iterates until a stopping criterion holds or the solver ends the run    *)
(* itself (it converged, or the objective returned an error).  All three   *)
(* solvers are configured with max_iters = 10000 (MaxRunIters here); the   *)
(* annealing run also with target_cost 0 and the two stall limits.  The    *)
(* cost a proposal gets is an input of the iteration, drawn from CostVals. *)
(* The equations come in the order of their unknowns and the caller's      *)
(* unknowns are all 100: the length of a run depends on neither.           *)
(***************************************************************************)
CostVals == 0..3

\* the solver of the run solve_system is about to make
PendingSolver ==
    IF pc = "sa" THEN "SA"
    ELSE IF pc = "refine" THEN "GN"
    ELSE IF i < Len(eqsys.solution_plan) THEN "GN" ELSE "LBFGS"

RunPending == pc \in {"loop", "sa", "refine"}

Exec(r, solver, run) == [op |-> "exec", run_idx |-> r, solver |-> solver, run |-> run]

RunUnderWay ==
    /\ RunPending /\ sa.op = "exec" /\ sa.run_idx = Len(log) + 1
    /\ sa.run.status = "running"

\* the stopping criteria of a run of solver
exec_terminated(solver, run) ==
    IF solver = "SA" THEN stopping(run, MaxRunIters) ELSE run.iter >= MaxRunIters

InitRuns ==
    /\ jac = EmptyMat
    /\ \E n \in 1..MaxSolveN : \E S \in SUBSET Cells(n, n) :
        /\ Cardinality(S) <= MaxSolveNnz
        /\ \A k \in 0..n-1 : <<k, k>> \in S
        /\ with_triangularization(Jacobian(n, n, S, {})).tag = "Plan"
        /\ eqsys = SolveView(with_triangularization(Jacobian(n, n, S, {})))
        /\ initial_unknowns = [c \in 0..n-1 |-> 100]
    /\ debug_build \in BOOLEAN
    /\ SolveIdle
    /\ ProbesIdle

\* Executor::run begins: the initial parameters and, for annealing, their cost
SolverStart ==
    /\ RunPending
    /\ ~(sa.op = "exec" /\ sa.run_idx = Len(log) + 1)
    /\ \E c \in CostVals :
         /\ PendingSolver # "SA" => c = 0
         /\ sa' = Exec(Len(log) + 1, PendingSolver,
                       IF PendingSolver = "SA"
                       THEN update([NewRun EXCEPT !.status = "running",
                                                  !.sp = [rng |-> 0], !.cost = c])
                       ELSE [NewRun EXCEPT !.status = "running"])
    /\ UNCHANGED <<scaler, sub, jac, eqsys, solve_vars>>

\* one iteration of the executor loop
SolverIterate ==
    /\ RunUnderWay
    /\ ~exec_terminated(sa.solver, sa.run)
    /\ IF sa.solver = "SA"
       THEN \E c \in CostVals : \E accepted \in accept_choices(sa.run.cost, c) :
              sa' = [sa EXCEPT !.run =
                        next_iter(sa.run, [res |-> CallOk(<< >>), rng |-> sa.run.sp.rng + 1],
                                  CallOk(c), accepted)]
       ELSE sa' = [sa EXCEPT !.run.iter = @ + 1]
    /\ UNCHANGED <<scaler, sub, jac, eqsys, solve_vars>>

\* the loop is left: a criterion holds, or the solver ended the run itself
SolverReturn ==
    /\ RunUnderWay
    /\ sa' = Exec(sa.run_idx, sa.solver, [NewRun EXCEPT !.status = "done"])
    /\ UNCHANGED <<scaler, sub, jac, eqsys, solve_vars>>

RunReturned == sa.op = "exec" /\ sa.run_idx = Len(log) + 1 /\ sa.run.status = "done"

\* solve_system takes the result of the run that returned
RunEnds ==
    /\ RunReturned
    /\ \/ GaussNewtonFirst
       \/ SimulatedAnnealingRun
       \/ GaussNewtonRefine
       \/ FinalPolish

NextRuns ==
    \/ CallSolveSystem
    \/ SolverStart
    \/ SolverIterate
    \/ SolverReturn
    \/ RunEnds

\* solve_system is one thread of straight-line code: it always takes its next
\* step.  The second condition is WF_vars(RunEnds) with the state predicate
\* RunReturned /\ RunPending for ENABLED <<RunEnds>>_vars: every run has an
\* outcome, and taking it appends to log.
SpecRuns ==
    /\ InitRuns /\ [][NextRuns]_vars
    /\ WF_vars(CallSolveSystem \/ SolverStart \/ SolverIterate \/ SolverReturn)
    /\ ([]<><<RunEnds>>_vars \/ []<>~(RunReturned /\ RunPending))

(***************************************************************************)
(* Properties of the plan.                                                 *)
(***************************************************************************)
PlanMade == eqsys.tag = "Plan"
Blocks == eqsys.solution_plan
EqSet(k) == Range(Blocks[k].equation_idxs)
UnkSet(k) == Range(Blocks[k].unknown_idxs)

NoRepeat(s) == \A a, b \in DOMAIN s : s[a] = s[b] => a = b

PlanEqOrder == Flatten([k \in DOMAIN Blocks |-> Blocks[k].equation_idxs])
PlanUnkOrder == Flatten([k \in DOMAIN Blocks |-> Blocks[k].unknown_idxs])

C24_Binarized ==
    eqsys.tag \in {"Plan", "Abort"} =>
        /\ eqsys.binary_matrix.rows = jac.rows /\ eqsys.binary_matrix.cols = jac.cols
        /\ DOMAIN eqsys.binary_matrix.e = Cells(jac.rows, jac.cols)
        /\ \A rc \in Cells(jac.rows, jac.cols) :
              eqsys.binary_matrix.e[rc] =
                  IF jac.e[rc] \in {NaN, Inf, -Inf} THEN NaN
                  ELSE IF jac.e[rc] = 0 THEN 0 ELSE 1

\* a plan was built on a Jacobian with an infinite, a negative and a zero entry
C24_Witness ==
    /\ eqsys.tag = "Plan"
    /\ \E rc \in DOMAIN jac.e : jac.e[rc] = -Inf
    /\ \E rc \in DOMAIN jac.e : jac.e[rc] = -3
    /\ \E rc \in DOMAIN jac.e : jac.e[rc] = 0

BuildEnded == eqsys.tag # "Init"
Singular == jac.rows = jac.cols /\ MatchingSize(to_binary_matrix(jac)) < jac.rows

\* C11: when the largest row/column matching of the binary pattern of a
\* square Jacobian is smaller than n, with_triangularization ends with a
\* StructurallySingular error and without a plan.
C11_SingularReported ==
    (BuildEnded /\ Singular) =>
        /\ eqsys.tag = "StructurallySingular"
        /\ eqsys.solution_plan = << >>

\* C12: when the Jacobian at the initial guess is not square,
\* with_triangularization returns NumEquationsNumUnknownsMismatch with the
\* number of equations and the number of unknowns, nothing has been binarized
\* or decomposed, and there is no plan; a square Jacobian never gives it.
C12_MismatchReported ==
    BuildEnded =>
        /\ jac.rows # jac.cols =>
              /\ eqsys.tag = "NumEquationsNumUnknownsMismatch"
              /\ eqsys.n_eqs = jac.rows /\ eqsys.n_unks = jac.cols
              /\ eqsys.binary_matrix = EmptyMat /\ eqsys.lower_tri_mat = EmptyMat
              /\ eqsys.block_structure = NoStructure
              /\ eqsys.solution_plan = << >>
        /\ jac.rows = jac.cols => eqsys.tag # "NumEquationsNumUnknownsMismatch"

\* three equations in two unknowns, with a non-finite entry, were rejected
C12_Witness ==
    /\ eqsys.tag = "NumEquationsNumUnknownsMismatch"
    /\ jac.rows = 3 /\ jac.cols = 2
    /\ \E rc \in DOMAIN jac.e : jac.e[rc] = NaN

(***************************************************************************)
(* Properties of the scaler.                                               *)
(***************************************************************************)
NoZeroPrior == \A c \in DOMAIN scaler.priors : scaler.priors[c] # 0

\* C17: for priors without a zero component and every opt-space vector x
\* (|x_i| within the bound), model_to_opt(opt_to_model(x)) returns x.
C17_RoundTrip ==
    (scaler.op = "round_trip" /\ NoZeroPrior) => scaler.back = CallOk(scaler.x)

\* C18: for priors without a zero component and every opt-space vector x,
\* every coordinate of opt_to_model(x) has the sign of its prior and an
\* absolute value strictly greater than the lower bound of that prior.
C18_SignAndBound ==
    (scaler.op \in {"opt_to_model", "round_trip"} /\ NoZeroPrior) =>
        /\ scaler.model.tag = "Ok"
        /\ \A c \in DOMAIN scaler.priors :
              /\ feq(signum(scaler.model.val[c]), signum(scaler.priors[c]))
              /\ fgt(fabs(scaler.model.val[c]), lower_bound(scaler.priors[c]))

\* C19: for priors without a zero component, model_to_opt(priors) is 0 in
\* every coordinate.
C19_PriorIsOrigin ==
    (scaler.op = "prior_to_opt" /\ NoZeroPrior) =>
        scaler.back = CallOk([c \in DOMAIN scaler.priors |-> 0])

\* a debug build mapped priors of both signs to opt space
C19_Witness ==
    /\ scaler.op = "prior_to_opt" /\ debug_build
    /\ \E c, d \in DOMAIN scaler.priors : scaler.priors[c] < 0 /\ scaler.priors[d] > 0

(***************************************************************************)
(* Properties of the sub-problem.                                          *)
(***************************************************************************)
SubMade == sub.op \notin {"none", "args"}
SubCalled == sub.op \in {"apply", "gradient", "jacobian", "anneal", "expand"}
SubK == Len(sub.sp.block.unknown_idxs)

\* C13: SubProblem::new with scaling enabled and a zero among the initial
\* unknowns fails with a ZeroPrior error instead of making a scaler.
C13_ZeroPriorRejected ==
    (SubMade /\ sub.args.use_scaling /\ \E c \in DOMAIN sub.args.unknowns : sub.args.unknowns[c] = 0)
        => sub.made = CallErr("ZeroPrior")

\* C14: apply, gradient, jacobian, anneal and expand, called with a vector
\* whose length is not the number of unknown_idxs of the block, return an
\* error value and compute nothing (no result, no draw from the generator).
C14_ShapeMismatch ==
    (SubCalled /\ Len(sub.input) # SubK) =>
        /\ sub.out.tag = "Err"
        /\ sub.out.val = << >>
        /\ sub.sp.rng = 0

\* what C20 compares apply with: the block's residuals, in bundle order, at
\* the model-space image of the full vector that holds the input at the
\* block's unknown_idxs and the initial opt-space values elsewhere
SubInitOpt ==
    IF sub.args.use_scaling THEN model_to_opt(sub.args.unknowns, sub.args.unknowns)
    ELSE sub.args.unknowns
SubExpanded ==
    [c \in DOMAIN sub.args.unknowns |->
        IF \E j \in 1..SubK : sub.args.block.unknown_idxs[j] = c
        THEN sub.input[CHOOSE j \in 1..SubK : sub.args.block.unknown_idxs[j] = c]
        ELSE SubInitOpt[c]]
SubModel ==
    IF sub.args.use_scaling THEN opt_to_model(SubExpanded, sub.args.unknowns) ELSE SubExpanded
SubF ==
    LET eqs == SortedSeq(Range(sub.args.block.equation_idxs))
    IN  [k \in DOMAIN eqs |-> eval_res_fn(sub.args.res_fns.f64[eqs[k] + 1], SubModel)]
ApplyReturned ==
    sub.op = "apply" /\ sub.out.tag = "Ok" /\ sub.args.residual_scaling.kind = "Identity"

\* C20 as stated: with the identity residual transform, output i of
\* apply(subprob_opt) is the value of the i-th residual at the expanded full
\* vector.
C20_ApplyIsF == ApplyReturned => sub.out.val = SubF

\* C20 amended: with the identity residual transform and the no-op
\* aggregator, output i of apply(subprob_opt) is the value of the block's i-th
\* residual at the expanded full vector; with the sum aggregator the single
\* output is the sum of those values.
C20_ApplyIsAggregatedF ==
    ApplyReturned =>
        /\ sub.args.residual_agg.kind = "NoOp" => sub.out.val = SubF
        /\ sub.args.residual_agg.kind = "Sum" => sub.out.val = <<sum_loss(SubF)>>

\* apply returned the two residuals of a scaled block away from the initial vector
C20_Witness ==
    /\ ApplyReturned /\ sub.args.residual_agg.kind = "NoOp"
    /\ sub.args.use_scaling /\ Len(sub.out.val) = 2
    /\ sub.out.val[1] # sub.out.val[2]
    /\ \E j \in DOMAIN sub.input : sub.input[j] # 0

ExpandReturned == sub.op = "expand" /\ sub.out.tag = "Ok" /\ Len(sub.input) = SubK

C22_State ==
    ExpandReturned =>
        /\ DOMAIN sub.out.val = DOMAIN sub.args.unknowns
        /\ \A j \in 1..SubK : sub.out.val[sub.args.block.unknown_idxs[j]] = sub.input[j]
        /\ \A c \in DOMAIN sub.args.unknowns :
              c \notin Range(sub.args.block.unknown_idxs) => sub.out.val[c] = SubInitOpt[c]
        /\ sub.sp.initial_unknowns = sub.args.unknowns

C22_Step == sub'.op = "expand" => sub'.sp = sub.sp

\* C22: the expansion of a k-vector v holds v[i] at position unknown_idxs[i]
\* and the opt-space initial vector everywhere else, and the call leaves the
\* sub-problem, its stored initial unknowns included, as it was.
C22_ExpandFrame == [](C22_State) /\ [][C22_Step]_vars

\* a scaled one-unknown block of a two-unknown system was expanded from a
\* value other than the initial one
C22_Witness ==
    /\ ExpandReturned /\ sub.args.use_scaling
    /\ SubK = 1 /\ Cardinality(DOMAIN sub.args.unknowns) = 2
    /\ sub.input[1] # 0
    /\ \A c \in DOMAIN sub.args.unknowns : sub.args.unknowns[c] # 0

\* the derivative of the objective at the expanded input, all n columns
SubDeriv == objective_derivative(sub.sp, SubExpanded)

C23_Select ==
    (sub.op = "jacobian" /\ sub.out.tag = "Ok" /\ Len(sub.input) = SubK) =>
        /\ sub.out.val.rows = SubDeriv.rows /\ sub.out.val.cols = SubK
        /\ DOMAIN sub.out.val.e = Cells(SubDeriv.rows, SubK)
        /\ \A r \in 0..SubDeriv.rows-1 : \A j \in 1..SubK :
              sub.out.val.e[<<r, j - 1>>] = SubDeriv.e[<<r, sub.args.block.unknown_idxs[j]>>]

C23_Gradient ==
    (sub.op = "gradient" /\ sub.out.tag \in {"Ok", "Err"} /\ Len(sub.input) = SubK) =>
        IF SubDeriv.rows = 1
        THEN /\ sub.out.tag = "Ok" /\ Len(sub.out.val) = SubK
             /\ \A j \in 1..SubK :
                   sub.out.val[j] = SubDeriv.e[<<0, sub.args.block.unknown_idxs[j]>>]
        ELSE sub.out.tag = "Err"

\* C23: jacobian returns the m-by-k matrix whose entry (i, j) is entry
\* (i, unknown_idxs[j]) of the full m-by-n derivative; gradient returns row 0
\* of that selection as a k-vector, and an error when the selection has a
\* number of rows other than 1.
C23_SelectColumns == C23_Select /\ C23_Gradient

\* the gradient of a block whose unknown is not the first one, where the first
\* column of the full derivative holds another value
C23_Witness ==
    /\ sub.op = "gradient" /\ sub.out.tag = "Ok" /\ SubK = 1
    /\ sub.args.block.unknown_idxs[1] = 1
    /\ sub.out.val[1] # SubDeriv.e[<<0, 0>>] /\ sub.out.val[1] # 0

AnnealReturned == sub.op = "anneal" /\ sub.out.tag = "Ok"
AbsDiff(a, b) == IF a >= b THEN a - b ELSE b - a

C25_State ==
    AnnealReturned =>
        /\ Len(sub.out.val) = Len(sub.input) /\ Len(sub.input) = SubK
        /\ Cardinality({j \in 1..SubK : sub.out.val[j] # sub.input[j]}) <= 1
        /\ \A j \in 1..SubK :
              AbsDiff(sub.out.val[j], sub.input[j]) <= sub.sp.sa_cfg[1].max_abs_step

C25_Step ==
    sub'.op = "anneal" => [sub'.sp EXCEPT !.rng = sub.sp.rng] = sub.sp

\* C25: a proposal anneal(p, temp) on a k-vector is a k-vector that differs
\* from p in at most one coordinate, by at most max_abs_step, at every
\* temperature and for small and big moves; the call changes nothing of the
\* sub-problem but the position of its generator.
C25_OneCoordinate == [](C25_State) /\ [][C25_Step]_vars

\* a big move at temperature 0, cut to max_abs_step, on the second of two coordinates
C25_Witness ==
    /\ AnnealReturned /\ SubK = 2 /\ sub.temp = 0
    /\ sub.out.val[1] = sub.input[1]
    /\ AbsDiff(sub.out.val[2], sub.input[2]) = sub.sp.sa_cfg[1].max_abs_step

\* apply returned on a sub-problem made the way solve_system makes them: the
\* L2 transform sized by the whole bundle, parameter scaling on
OrchestratorApply ==
    /\ sub.op = "apply" /\ sub.out.tag = "Ok"
    /\ sub.args.use_scaling
    /\ sub.args.residual_scaling = [kind |-> "UnscaledL2", n |-> Len(sub.args.res_fns.f64)]

\* C30: one evaluation of the objective returns num_outputs values: with the
\* no-op aggregator one per equation of the block, each the transformed
\* residual of that equation, and with the sum aggregator exactly one
C30_NumOutputs ==
    OrchestratorApply =>
        /\ Len(sub.out.val) = num_outputs(sub.sp.residual_agg)
        /\ sub.args.residual_agg.kind = "NoOp" =>
              /\ Len(sub.out.val) = Len(sub.args.block.equation_idxs)
              /\ sub.out.val = [k \in DOMAIN SubF |-> transform_fn("UnscaledL2", SubF[k])]
        /\ sub.args.residual_agg.kind = "Sum" => Len(sub.out.val) = 1

\* the no-op aggregator returned the one residual of a block of a larger
\* system, for which more transforms are made than the block has residuals
C30_Witness ==
    /\ OrchestratorApply /\ sub.args.residual_agg.kind = "NoOp"
    /\ Len(sub.out.val) = Len(sub.args.block.equation_idxs)
    /\ Len(sub.args.res_fns.f64) > Len(sub.args.block.equation_idxs)
    /\ sub.out.val[1] # 0

(***************************************************************************)
(* Properties of filter_res_fns_to_block.                                  *)
(***************************************************************************)
Filtered == sub.op = "filtered"
FilteredFns == sub.out.val

\* C28: in the bundle filter_res_fns_to_block returns, the three lists have the
\* same length and at every position the name, the f64 function and the adfn<1>
\* function are those of one residual of the original bundle, for every block
C28_Aligned ==
    Filtered =>
        /\ Len(FilteredFns.fn_names) = Len(FilteredFns.f64)
        /\ Len(FilteredFns.adfn_1) = Len(FilteredFns.f64)
        /\ \A p \in DOMAIN FilteredFns.f64 :
              \E k \in DOMAIN sub.res_fns.f64 :
                 /\ FilteredFns.f64[p] = sub.res_fns.f64[k]
                 /\ FilteredFns.adfn_1[p] = sub.res_fns.adfn_1[k]
                 /\ FilteredFns.fn_names[p] = sub.res_fns.fn_names[k]

\* the three lists have the same length, and the two function lists agree
C28_SameLength ==
    Filtered =>
        /\ Len(FilteredFns.fn_names) = Len(FilteredFns.f64)
        /\ Len(FilteredFns.adfn_1) = Len(FilteredFns.f64)
        /\ \A p \in DOMAIN FilteredFns.f64 : FilteredFns.f64[p].idx = FilteredFns.adfn_1[p].idx

(***************************************************************************)
(* Properties of solve_simulated_annealing.                                *)
(***************************************************************************)
BothRunsDone == sa.op = "run" /\ sa.k = 2 /\ sa.runs[2].status = "done"

\* C15: two runs of solve_simulated_annealing on the same arguments return
\* the same output.
C15_SameOutput == BothRunsDone => sa.runs[1].out = sa.runs[2].out

\* the generator of a run stands after as many draws as proposals were made
C26_State ==
    sa.op = "run" =>
        \A r \in 1..2 :
            sa.runs[r].status # "idle" =>
                /\ sa.runs[r].sp.rng = sa.runs[r].iter
                /\ sa.runs[r].sp.rng <= Len(sa.stream)

C26_Step ==
    LET run == sa.runs[sa.k]
        next == sa'.runs[sa.k]
    IN  /\ (run.status = "idle" /\ next.status # "idle") => next.sp.rng = 0
        /\ (run.status = "running" /\ next.iter # run.iter) =>
              /\ next.iter = run.iter + 1
              /\ next.sp.rng = run.sp.rng + 1
              /\ Len(sa'.stream) >= next.sp.rng
              /\ \A n \in DOMAIN sa.stream : sa'.stream[n] = sa.stream[n]
              /\ next.param \in
                    {run.param,
                     anneal_proposal(run.sp, run.param, cur_temp(run.sp, run.iter),
                                     sa'.stream[run.sp.rng + 1])}
        /\ (run.status = "running" /\ next.iter = run.iter) => next.sp.rng = run.sp.rng

\* C26: the proposal generator of a sub-problem starts at seed 0 when the
\* sub-problem is made and is never set back: the n-th proposal of a run takes
\* its draws where the (n-1)-th left the one stream, and a new sub-problem
\* starts the stream again.
C26_SharedStream == [](C26_State) /\ [][C26_Step]_vars

\* the second run made its second proposal, from the draws the first run met
C26_Witness ==
    /\ sa.op = "run" /\ sa.k = 2 /\ sa.runs[2].status # "idle"
    /\ sa.runs[1].sp.rng = 2 /\ sa.runs[2].sp.rng = 2
    /\ Len(sa.stream) = 2 /\ sa.stream[1] # sa.stream[2]
    /\ sa.runs[2].param # sa.runs[1].param

(***************************************************************************)
(* Properties of solve_system.                                             *)
(***************************************************************************)
Plan == eqsys.solution_plan
NumBlocks == Len(Plan)
RunsOf(solver, b) == {k \in DOMAIN log : log[k].solver = solver /\ log[k].block_pos = b}
Appended == Len(log') = Len(log) + 1
\* block b has been solved: Gauss-Newton, first or refining, returned Ok on it
Solved(b, upto) ==
    \E k \in 1..upto : /\ log[k].block_pos = b /\ log[k].outcome = "Ok"
                       /\ log[k].solver \in {"GN", "GNrefine"}

\* C1: simulated annealing is run on a block exactly when the first
\* Gauss-Newton run on that block returned an error; after an Ok of that run
\* its result is the current unknowns and the next run is on the next block.
C1_SaIffGnFailed ==
    /\ \A b \in 0..NumBlocks-1 :
        /\ \A k \in RunsOf("SA", b) :
              k > 1 /\ log[k-1] = [solver |-> "GN", block_pos |-> b, outcome |-> "Err"]
        /\ \A k \in RunsOf("GN", b) :
              /\ log[k].outcome = "Err" /\ ~(k = Len(log) /\ pc = "sa")
                    => k + 1 \in RunsOf("SA", b)
              /\ log[k].outcome = "Ok" =>
                    /\ RunsOf("SA", b) = {}
                    /\ k < Len(log) => log[k+1].block_pos \notin 0..b
                    /\ k = Len(log) =>
                          /\ current_unknowns = last_run.out
                          /\ i = b + 1 /\ pc = "loop"
        /\ Cardinality(RunsOf("GN", b)) <= 1

C1_Witness ==
    /\ \E b \in 0..NumBlocks-1 : RunsOf("SA", b) # {}
    /\ \E b \in 0..NumBlocks-1 : \E k \in RunsOf("GN", b) : log[k].outcome = "Ok"

\* C2: solve_system ends by returning Ok(unknowns) or Err(error), whatever
\* the solvers do.
C2_ReturnsResult == pc = "done" => result.tag \in {"Ok", "Err"}

\* C3: when simulated annealing fails on a block, solve_system returns that
\* very error, and no solver runs afterwards: no later block, no polish.
C3_SaErrorAborts ==
    \A k \in DOMAIN log :
        log[k].solver = "SA" /\ log[k].outcome = "Err" =>
            /\ k = Len(log)
            /\ pc = "done"
            /\ last_run.solver = "SA" /\ last_run.outcome = "Err"
            /\ result = Err(last_run.err)

\* annealing failed on the first of two blocks
C3_Witness ==
    /\ NumBlocks = 2 /\ i = 0
    /\ last_run.solver = "SA" /\ last_run.outcome = "Err"
    /\ result.tag = "Err"

\* the runs on blocks are in plan order, each block after the earlier ones were solved
C4_Order ==
    \A k \in DOMAIN log :
        log[k].block_pos >= 0 =>
            /\ \A b \in 0..log[k].block_pos-1 : Solved(b, k - 1)
            /\ \A k2 \in 1..k-1 : log[k2].block_pos <= log[k].block_pos
            /\ ~Solved(log[k].block_pos, k - 1)

\* a run on a block starts from what the preceding successful step left
C4_Start ==
    Appended /\ last_run'.block_pos >= 0 =>
        /\ last_run'.solver = "GNrefine" =>
              /\ last_run.solver = "SA" /\ last_run.outcome = "Ok"
              /\ last_run'.start = last_run.out
        /\ last_run'.solver # "GNrefine" =>
              /\ last_run'.start = current_unknowns
              /\ i > 0 /\ last_run.outcome = "Ok" => current_unknowns = last_run.out
              /\ i = 0 => current_unknowns = initial_unknowns
        /\ last_run'.unknown_idxs = Plan[last_run'.block_pos + 1].unknown_idxs
        /\ last_run'.outcome # "Ok" => current_unknowns' = current_unknowns

\* C4: the blocks are solved strictly in plan order -- a solver runs on block
\* j only after every block before j was solved -- and every run on a block
\* starts from the unknowns left by the preceding successful step.
C4_PlanOrder == [](C4_Order) /\ [][C4_Start]_vars

\* annealing runs on the second block after the first block changed the unknowns
C4_Witness ==
    /\ last_run.solver = "SA" /\ last_run.block_pos = 1
    /\ last_run.start # initial_unknowns

\* C5: solving block k changes the current unknowns only at the coordinates
\* in block k's unknown_idxs.
C5_Frame ==
    (pc \in {"loop", "refine"} /\ i < NumBlocks /\ current_unknowns' # current_unknowns) =>
        \A c \in DOMAIN current_unknowns :
            c \notin Range(Plan[i + 1].unknown_idxs) => current_unknowns'[c] = current_unknowns[c]

C5_OnlyOwnCoordinates == [][C5_Frame]_vars

AllIdx == 0..eqsys.n_eqs-1

C6_State ==
    /\ \A k \in RunsOf("LBFGS", -1) :
          /\ k = Len(log) /\ pc = "done"
          /\ \A b \in 0..NumBlocks-1 : Solved(b, k - 1)
          /\ last_run.solver = "LBFGS"
          /\ Range(last_run.equation_idxs) = AllIdx /\ Len(last_run.equation_idxs) = eqsys.n_eqs
          /\ Range(last_run.unknown_idxs) = DOMAIN initial_unknowns
          /\ Len(last_run.unknown_idxs) = eqsys.n_unks
          /\ last_run.outcome = "Ok" => result = Ok(last_run.out)
          /\ last_run.outcome = "Err" => result = Err(last_run.err)
    /\ pc = "done" /\ (\A b \in 0..NumBlocks-1 : Solved(b, Len(log)))
          => Cardinality(RunsOf("LBFGS", -1)) = 1
    /\ result.tag = "Ok" => last_run.solver = "LBFGS" /\ last_run.outcome = "Ok"

C6_Step ==
    Appended /\ last_run'.solver = "LBFGS" =>
        /\ last_run'.start = current_unknowns
        /\ NumBlocks > 0 => /\ last_run.block_pos = NumBlocks - 1
                            /\ last_run.outcome = "Ok"
                            /\ current_unknowns = last_run.out

\* C6: the final L-BFGS polish runs once, after every block was solved, on a
\* block holding all n equation and all n unknown indices, from the unknowns
\* the last block left; Ok of solve_system is the polish result and a polish
\* error is returned as Err.
C6_FinalPolish == [](C6_State) /\ [][C6_Step]_vars

\* the polish ran from unknowns the blocks had changed
C6_Witness ==
    /\ last_run.solver = "LBFGS" /\ last_run.outcome = "Ok"
    /\ NumBlocks = 2 /\ last_run.start # initial_unknowns
    /\ result.tag = "Ok"

\* C7: solve_system changes neither the caller's unknowns nor the plan.
C7_CallerUntouched ==
    [][initial_unknowns' = initial_unknowns /\ eqsys' = eqsys]_vars

\* the call failed after a block was solved and the private copy had moved on
C7_Witness ==
    /\ pc = "done" /\ result.tag = "Err" /\ i >= 1
    /\ current_unknowns # initial_unknowns

C21_State ==
    /\ pc = "refine" =>
          /\ last_run.solver = "SA" /\ last_run.outcome = "Ok" /\ last_run.block_pos = i
          /\ sa_soln = last_run.out
          /\ Len(log) >= 2
          /\ log[Len(log) - 1] = [solver |-> "GN", block_pos |-> i, outcome |-> "Err"]
    /\ \A k \in DOMAIN log :
          /\ log[k].solver = "SA" /\ log[k].outcome = "Ok" /\ k < Len(log) =>
                log[k + 1].solver = "GNrefine" /\ log[k + 1].block_pos = log[k].block_pos
          /\ log[k].solver = "SA" /\ log[k].outcome = "Ok" /\ k = Len(log) => pc = "refine"
          /\ log[k].solver = "GNrefine" /\ log[k].outcome # "Ok" =>
                k = Len(log) /\ pc = "done" /\ result = Panic

C21_Step ==
    pc = "refine" =>
        /\ Appended
        /\ last_run'.solver = "GNrefine" /\ last_run'.block_pos = i
        /\ last_run'.unknown_idxs = Plan[i + 1].unknown_idxs
        /\ last_run'.equation_idxs = Plan[i + 1].equation_idxs
        /\ last_run'.start = sa_soln
        /\ last_run'.outcome = "Ok" =>
              current_unknowns' = last_run'.out /\ i' = i + 1 /\ pc' = "loop"
        /\ last_run'.outcome # "Ok" =>
              pc' = "done" /\ result' = Panic /\ current_unknowns' = current_unknowns

\* C21: after a failed first Gauss-Newton run on a block and a successful
\* annealing run, Gauss-Newton runs again on the same block from the annealing
\* result; its Ok result becomes the current unknowns, and its failure ends
\* solve_system by a panic with no later run.
C21_Refinement == [](C21_State) /\ [][C21_Step]_vars

\* the refinement of the first of two blocks returned something else than the
\* annealing result
C21_Witness ==
    /\ last_run.solver = "GNrefine" /\ last_run.outcome = "Ok"
    /\ NumBlocks = 2 /\ i = 1
    /\ last_run.out # last_run.start /\ current_unknowns = last_run.out

C29_State ==
    pc = "sa" =>
        /\ last_run.solver = "GN" /\ last_run.outcome = "Err" /\ last_run.block_pos = i
        /\ last_run.start = current_unknowns

C29_Step ==
    /\ (pc = "loop" /\ Appended /\ last_run'.solver = "GN" /\ last_run'.outcome = "Err") =>
            current_unknowns' = current_unknowns /\ i' = i /\ pc' = "sa"
    /\ pc = "sa" =>
            /\ Appended /\ last_run'.solver = "SA" /\ last_run'.block_pos = last_run.block_pos
            /\ last_run'.start = last_run.start

\* C29: when the first Gauss-Newton run on a block returns an error, the
\* current unknowns stay as they were, and annealing on that block starts from
\* the very vector Gauss-Newton started from.
C29_FailedRunLeavesUnknowns == [](C29_State) /\ [][C29_Step]_vars

\* annealing ran on the second block, after a failed Gauss-Newton run, from
\* unknowns that the first block had moved
C29_Witness ==
    /\ last_run.solver = "SA" /\ last_run.block_pos = 1 /\ last_run.outcome = "Ok"
    /\ Len(log) = 3 /\ log[2] = [solver |-> "GN", block_pos |-> 1, outcome |-> "Err"]
    /\ last_run.start # initial_unknowns /\ last_run.start = current_unknowns

(***************************************************************************)
(* Properties of solve_system with the iterations of its runs.             *)
(***************************************************************************)
\* a run under way is within its limits: at most max_iters iterations, and
\* for annealing no stall counter more than one past its limit
ExecWithinLimits ==
    (sa.op = "exec" /\ sa.run.status = "running") =>
        /\ sa.run.iter <= MaxRunIters
        /\ sa.run.stall_iter_best <= StallLimit + 1
        /\ sa.run.stall_iter_accepted <= StallLimit + 1
        /\ Len(log) <= 3 * NumBlocks

\* a step that is one more iteration of the run under way
Iterates ==
    /\ sa.op = "exec" /\ sa'.op = "exec" /\ sa'.run_idx = sa.run_idx
    /\ sa'.run.iter = sa.run.iter + 1

\* no iteration is made once a criterion of the run holds
C27_Step ==
    Iterates =>
        /\ sa.run.iter < MaxRunIters
        /\ sa.solver = "SA" =>
              /\ ~fge(0, sa.run.best_cost)
              /\ sa.run.stall_iter_best <= StallLimit
              /\ sa.run.stall_iter_accepted <= StallLimit

\* C27: every solver run stops (after at most max_iters iterations; annealing
\* also once its best cost is 0 or less, or a stall counter has passed its
\* limit), and solve_system returns, for every plan
C27_Terminates ==
    /\ [](ExecWithinLimits)
    /\ [][C27_Step]_vars
    /\ <>(pc = "done")

\* solve_system has returned after the longest sequence of runs a plan allows:
\* three runs on every block and the final one
C27_Witness ==
    /\ pc = "done" /\ result.tag = "Ok"
    /\ NumBlocks >= 2
    /\ Len(log) = 3 * NumBlocks + 1

\* an annealing run stopped by a stall limit alone, before max_iters
RunStalled ==
    /\ RunUnderWay /\ sa.solver = "SA"
    /\ sa.run.iter < MaxRunIters
    /\ ~fge(0, sa.run.best_cost)
    /\ sa.run.stall_iter_best > StallLimit
    /\ ~ENABLED SolverIterate

\* an annealing run stopped by the target cost alone
RunAtTarget ==
    /\ RunUnderWay /\ sa.solver = "SA"
    /\ sa.run.iter < MaxRunIters
    /\ fge(0, sa.run.best_cost)
    /\ sa.run.stall_iter_best <= StallLimit
    /\ ~ENABLED SolverIterate

\* an annealing run that has made max_iters iterations with no criterion
\* but the iteration limit stopping it
RunAtMaxIters ==
    /\ RunUnderWay /\ sa.solver = "SA"
    /\ sa.run.iter = MaxRunIters
    /\ ~fge(0, sa.run.best_cost)
    /\ sa.run.stall_iter_best <= StallLimit
    /\ sa.run.stall_iter_accepted <= StallLimit


=============================================================================
